---- MODULE Spec2Model ----
(***************************************************************************)
(* A model of the x-stitch pattern generators (patternGenerator.js):       *)
(* generateConcentricSquares, generateStripes, generateIsometricCubes,     *)
(* generateConcentricCircles and generateConcentricPolygons.               *)
(*                                                                         *)
(* Arithmetic.  The code computes in IEEE doubles.  The model computes the *)
(* same quantities exactly, in integers:                                   *)
(*   - coordinates are half-integers, so the model keeps them doubled      *)
(*     (Dx2 = 2 * dx);                                                     *)
(*   - the code's 1e-10 is a positive quantity smaller than every gap      *)
(*     between two distinct values that occur, so the model keeps it as an *)
(*     infinitesimal eps: a value is "exact part + eps part", and eps      *)
(*     decides a floor exactly where the exact part sits on a boundary;    *)
(*   - sqrt(2) and sqrt(3) are kept symbolically (p + q * sqrt(c)), and so *)
(*     are the cosines and sines of the pentagon's angles (SeSign).        *)
(* Where the exact value sits on a boundary and eps does not decide, the   *)
(* rounding of the code's double arithmetic decides, and the model keeps   *)
(* what decides it: the doubles a tiny sine moves a coordinate by          *)
(* (DoubleSteps), the side of a third on which its double lies             *)
(* (ThirdSide), the doubles a corner's polygon distance lies above its     *)
(* value (CornerUp, tabulated from the code's doubles for the corners the  *)
(* model reaches and undefined elsewhere).  tilt is modelled for 0 degrees *)
(* (cos = 1, sin = 0 exactly) and, for the squares and the layer counts of *)
(* the App's circles and polygons, 360 degrees (cos = 1, sin = -2.45e-16). *)
(*                                                                         *)
(* The App.  A handler's setConfig, the render that follows it and the     *)
(* pattern of that render are one step; the colour-sync effect of a render *)
(* is a step of its own, and so is the render of the update the effect     *)
(* queues, so that an event may be handled in between.  The user raises at *)
(* most MaxEvents events.                                                  *)
(*                                                                         *)
(* Arrays.  The colors array a caller passes and the grids the generators  *)
(* create live in a heap and are held by address: a generator allocates    *)
(* its grid (AllocGrid), writes the cells through the addresses of the     *)
(* rows (StoreCells) and reads colors at the address it was passed.        *)
(***************************************************************************)
EXTENDS Integers, Sequences, FiniteSets, TLC

\* ------------------------------------------------------------------ bounds
MaxWidth == 3
MaxHeight == 3
MaxLayers == 3
MaxThickness == 2
MaxColors == 3
StripesMaxWidth == 4
MaxPeriodLen == 4
\* The number of events the App's user raises.
MaxEvents == 4

\* Fixed numbers of the ControlPanel handlers.
CubeColorCount == 3
DefaultCubeSize == 10
MaxSquaresCount == 20
MaxSizeValue == 50
FallbackColor == "#abcdef"

\* The colours a caller passes: a prefix of this list.
Palette == <<"#E8B4B8", "#F4D1AE", "#F9EAC2", "#C8E3D4", "#B4D4E1">>

Widths == 1..MaxWidth
Heights == 1..MaxHeight
\* numSquares / numLayers / stripeWidth / cubeSize as passed by a caller,
\* the non-positive values included.
Sizes == (-1)..MaxLayers
\* layerThickness: 0 stands for the falsy values (null, 0) that select count mode.
Thicknesses == 0..MaxThickness
\* <<count, layerThickness>>: every count in count mode, and every positive
\* thickness with the count 0 (the code ignores the count in thickness mode).
SizeModes ==
    {<<n, 0>> : n \in Sizes} \cup {<<0, t>> : t \in Thicknesses \ {0}}
ColorLists == {SubSeq(Palette, 1, k) : k \in 0..MaxColors}
Ratios == {-1, 1, 2}
Offsets == {-1, 0, 1}
Tilts == {0}
SideCounts == {-1, 2, 3, 6}
\* What the App's user types or picks: fabric sizes, offsets and ratios.
FabricSizes == {10, 100}
OffsetInputs == {0, 1}
RatioInputs == {1, 2}

\* ------------------------------------------------------- JavaScript values
\* The level of a cell when the code computes NaN (a sentinel outside every
\* level the model can produce).
NaN == -99
\* colors[i] for an index that is no element of the array.
Undefined == "undefined"
\* A grid slot never assigned: Array(width).fill(null).
NullCell == [color |-> "null", level |-> NaN]

Abs(a) == IF a < 0 THEN -a ELSE a
Sign(a) == IF a > 0 THEN 1 ELSE IF a < 0 THEN -1 ELSE 0
Max(a, b) == IF a >= b THEN a ELSE b
Min(a, b) == IF a <= b THEN a ELSE b
\* The greatest and the least element of a set of integers.
Greatest(S) == CHOOSE k \in S : \A j \in S : j <= k
Least(S) == CHOOSE k \in S : \A j \in S : k <= j

\* The sign of the first non-zero component.
LexSign2(a, b) == IF a # 0 THEN Sign(a) ELSE Sign(b)
LexSign3(a, b, c) == IF a # 0 THEN Sign(a) ELSE LexSign2(b, c)

\* JavaScript's a % n: the sign of the dividend, NaN for n = 0 or a = NaN.
JsMod(a, n) ==
    IF a = NaN \/ n = 0 THEN NaN
    ELSE IF a >= 0 THEN a % n ELSE -((-a) % n)

\* colors[i] (0-based), undefined outside the array.
ColorAt(colors, i) ==
    IF i >= 0 /\ i < Len(colors) THEN colors[i + 1] ELSE Undefined

\* floor((n + e * eps) / d) for d > 0: eps decides on an exact boundary.
EpsFloor(n, e, d) ==
    LET q == n \div d
    IN IF n % d = 0 /\ e < 0 THEN q - 1 ELSE q

\* ceil((n + e * eps) / d) for d > 0.
EpsCeil(n, e, d) == -EpsFloor(-n, -e, d)

\* floor(sqrt(x)) for an integer x >= 0.
Isqrt(x) == CHOOSE r \in 0..x : r * r <= x /\ (r + 1) * (r + 1) > x

\* ------------------------------------------------------------ shared steps
\* A loop that stops one iteration early (a variant the grid claim must tell
\* from the code's loop).
LoopRangeShort(n) == 0..(n - 2)

\* for (let i = 0; i < n; i++)
LoopRange(n) == 0..(n - 1)

\* const grid = Array(height).fill(null).map(() => Array(width).fill(null)),
\* then the two loops assign grid[y][x]: `assigned` maps each (x, y) the loops
\* visit to the cell they assign. Row y is grid[y + 1], cell x is grid[y + 1][x + 1].
BuildGrid(width, height, assigned) ==
    [yy \in 1..height |->
        [xx \in 1..width |->
            IF <<xx - 1, yy - 1>> \in DOMAIN assigned
            THEN assigned[xx - 1, yy - 1]
            ELSE NullCell]]

\* dx without the offset in centerX.
Dx2NoOffset(x, width, offsetX) == 2 * x - (width - 1)

\* 2 * (x - centerX) with centerX = (width - 1) / 2 + offsetX.
Dx2(x, width, offsetX) == 2 * x - (width - 1) - 2 * offsetX

\* Math.cos(tiltRad) and Math.sin(tiltRad). Math.cos(2 * Math.PI) is exactly 1.
CosTilt(tilt) == CASE tilt = 0 -> 1 [] tilt = 360 -> 1
SinTilt(tilt) == CASE tilt = 0 -> 0

\* Math.sin(tiltRad) where it is 0 or tiny, in units of delta = 2.45e-16:
\* Math.sin((360 * Math.PI) / 180) is -2.4492935982947064e-16, not 0.
SinTiltTiny(tilt) == CASE tilt = 0 -> 0 [] tilt = 360 -> -1

\* delta in spacings of the doubles of [1, 2) (2^-52): 1.103062.
SinStepNum == 1103062
SinStepDen == 1000000

\* 1e-10 in thousandths of the spacing of the doubles of [1/2, 1) (2^-53):
\* 900719.925 spacings.
EpsStepMilli == 900719925

\* The largest power of two that is at most a (a >= 1).
RECURSIVE Binade(_)
Binade(a) == IF a < 2 THEN 1 ELSE 2 * Binade(a \div 2)

\* num / den rounded to the nearest integer (den > 0), as the double
\* arithmetic rounds a result to the nearest double.
RoundDiv(num, den) == Sign(num) * ((2 * Abs(num) + den) \div (2 * den))

\* The doubles between |a| and Math.abs(a + o * sinTilt) + 1e-10, for
\* a = a2 / 2 # 0 and o * sinTilt = Sign(a) * s * delta / 2. The sum
\* a + o * sinTilt is rounded to a double (to half a spacing where it falls
\* below a power of two), then the sum with 1e-10 is rounded to a double.
DoubleSteps(a2, s) ==
    LET p == Binade(a2)
        halves == IF s = 0 THEN 0
                  ELSE IF s < 0 /\ a2 = p
                  THEN RoundDiv(2 * s * SinStepNum, p * SinStepDen)
                  ELSE 2 * RoundDiv(s * SinStepNum, p * SinStepDen)
    IN (EpsStepMilli + 500 * p * (halves + 1)) \div (1000 * p)

\* 2 * (dx * cosTilt + dy * sinTilt) and 2 * (-dx * sinTilt + dy * cosTilt).
RotX2(dx2, dy2, tilt) == dx2 * CosTilt(tilt) + dy2 * SinTilt(tilt)
RotY2(dx2, dy2, tilt) == (-dx2) * SinTilt(tilt) + dy2 * CosTilt(tilt)

\* The four corners the generators sample for maxDistance.
Corners(width, height) ==
    <<[x |-> 0, y |-> 0], [x |-> width - 1, y |-> 0],
      [x |-> 0, y |-> height - 1], [x |-> width - 1, y |-> height - 1]>>

\* A variant that caps the level at the last colour instead of cycling.
LevelCellCapped(level, colors) ==
    LET colorIndex == Min(level, Len(colors) - 1)
    IN [color |-> ColorAt(colors, colorIndex), level |-> colorIndex]

\* const colorIndex = level % colors.length; { color: colors[colorIndex], level: colorIndex }
LevelCell(level, colors) ==
    LET colorIndex == JsMod(level, Len(colors))
    IN [color |-> ColorAt(colors, colorIndex), level |-> colorIndex]

\* ------------------------------------------------- generateConcentricSquares
\* A value of exact part n / d (d > 0) and eps part e * eps / d, eps = 1e-10.
\* t tells apart the doubles of one n / d and e / d, which come from one |a|
\* and one ratio: for a # 0 it counts the doubles between |a| and
\* Math.abs(a + o * sinTilt) + 1e-10, for a = 0 it is |o * sinTilt| in units
\* of delta / 2 (delta = 2.45e-16, the size of Math.sin(2 * Math.PI)); two
\* values of the same n / d, e / d and t are the same double.
EpsZero == [n |-> 0, e |-> 0, t |-> 0, d |-> 1]
EpsCmp(u, v) ==
    LexSign3(u.n * v.d - v.n * u.d, u.e * v.d - v.e * u.d, u.t * v.d - v.t * u.d)
EpsMax(u, v) == IF EpsCmp(u, v) >= 0 THEN u ELSE v

\* The sign of the part of a value below its n.
EpsTiny(u) == LexSign2(u.e, u.t)

\* (Math.abs(a) + 1e-10) / ratio for a = (a2 + tiny2 * delta) / 2.
SquaresAxis(a2, tiny2, ratio) ==
    [n |-> Sign(ratio) * Abs(a2),
     e |-> 2 * Sign(ratio),
     t |-> Sign(ratio) * (IF a2 # 0 THEN DoubleSteps(Abs(a2), Sign(a2) * tiny2)
                                      ELSE Abs(tiny2)),
     d |-> 2 * Abs(ratio)]

\* rx, ry and Math.max(rx, ry) for the point (x, y): dx * cosTilt +
\* dy * sinTilt and -dx * sinTilt + dy * cosTilt with a sine that is 0 or tiny.
SquaresDistance(x, y, width, height, ratioX, ratioY, tilt, offsetX, offsetY) ==
    LET dx2 == Dx2(x, width, offsetX)
        dy2 == Dx2(y, height, offsetY)
    IN EpsMax(SquaresAxis(dx2 * CosTilt(tilt), dy2 * SinTiltTiny(tilt), ratioX),
              SquaresAxis(dy2 * CosTilt(tilt), (-dx2) * SinTiltTiny(tilt), ratioY))

\* let maxDistance = 0; corners.forEach(... Math.max(maxDistance, rx, ry))
SquaresMaxDistance(width, height, ratioX, ratioY, tilt, offsetX, offsetY) ==
    LET c == Corners(width, height)
        D(i) == SquaresDistance(c[i].x, c[i].y, width, height,
                                ratioX, ratioY, tilt, offsetX, offsetY)
    IN EpsMax(EpsMax(EpsMax(EpsMax(EpsZero, D(1)), D(2)), D(3)), D(4))

\* Math.floor((distance + layerThickness / 2) / layerThickness)
EpsThicknessLevel(dist, layerThickness) ==
    EpsFloor(2 * dist.n + layerThickness * dist.d, EpsTiny(dist),
             2 * layerThickness * dist.d)

\* Math.floor((distance / (maxDistance || 1)) * numSquares). A maxDistance
\* of exactly 0 is replaced by 1; a maxDistance of exact part 0 is truthy,
\* and the distances it bounds have the exact part 0 too. Where the exact
\* parts and the eps parts give an integer, the quotient of the two doubles
\* is below it, on it or above it as the doubles compare.
EpsCountFloor(dist, maxDistance, numSquares) ==
    IF maxDistance.n = 0 /\ maxDistance.e = 0
    THEN EpsFloor(numSquares * dist.n, numSquares * EpsTiny(dist), dist.d)
    ELSE IF maxDistance.n = 0
    THEN EpsFloor(numSquares * dist.e * maxDistance.d,
                  numSquares * (dist.t * maxDistance.e - dist.e * maxDistance.t),
                  dist.d * maxDistance.e)
    ELSE EpsFloor(numSquares * dist.n * maxDistance.d,
                  numSquares * LexSign2(dist.e * maxDistance.n - dist.n * maxDistance.e,
                                        dist.t * maxDistance.n - dist.n * maxDistance.t),
                  dist.d * maxDistance.n)

\* The level without the Math.min(..., numSquares - 1) of count mode (a
\* variant the 3x3 scenario must tell from the code).
SquaresLevelUnclamped(dist, maxDistance, numSquares, layerThickness) ==
    IF layerThickness # 0
    THEN EpsThicknessLevel(dist, layerThickness)
    ELSE EpsCountFloor(dist, maxDistance, numSquares)

\* The level of a cell at `dist`, before colour cycling.
SquaresLevel(dist, maxDistance, numSquares, layerThickness) ==
    IF layerThickness # 0
    THEN EpsThicknessLevel(dist, layerThickness)
    ELSE Min(EpsCountFloor(dist, maxDistance, numSquares), numSquares - 1)

\* Math.max(1, Math.ceil(maxDistance / layerThickness)), without the half
\* layer (a variant the layer-count claim must tell from the code).
EpsActualLayersNoHalf(maxDistance, layerThickness) ==
    Max(1, EpsCeil(maxDistance.n, EpsTiny(maxDistance), layerThickness * maxDistance.d))

\* Math.max(1, Math.ceil((maxDistance + layerThickness / 2) / layerThickness))
EpsActualLayers(maxDistance, layerThickness) ==
    Max(1, EpsCeil(2 * maxDistance.n + layerThickness * maxDistance.d,
                   EpsTiny(maxDistance), 2 * layerThickness * maxDistance.d))

generateConcentricSquares(width, height, numSquares, colors, ratioX, ratioY, layerThickness, tilt, offsetX, offsetY) ==
    LET maxDistance == SquaresMaxDistance(width, height, ratioX, ratioY,
                                          tilt, offsetX, offsetY)
        CellAt(x, y) ==
            LevelCell(
                SquaresLevel(
                    SquaresDistance(x, y, width, height, ratioX, ratioY,
                                    tilt, offsetX, offsetY),
                    maxDistance, numSquares, layerThickness),
                colors)
        assigned == [x \in LoopRange(width), y \in LoopRange(height) |-> CellAt(x, y)]
    IN [grid |-> BuildGrid(width, height, assigned),
        width |-> width,
        height |-> height,
        numSquares |-> IF layerThickness # 0
                       THEN EpsActualLayers(maxDistance, layerThickness)
                       ELSE numSquares,
        colors |-> colors,
        ratioX |-> ratioX,
        ratioY |-> ratioY,
        layerThickness |-> layerThickness,
        tilt |-> tilt,
        offsetX |-> offsetX,
        offsetY |-> offsetY]

\* ------------------------------------------------------------ generateStripes
\* Math.round in place of the Math.floor of stripePos (a variant the 4x1
\* scenario must tell from the code).
StripePosRounded(u2, stripeWidth) ==
    IF stripeWidth = 0 THEN NaN
    ELSE IF stripeWidth > 0 THEN EpsFloor(u2 + stripeWidth, 2, 2 * stripeWidth)
    ELSE EpsFloor(-u2 - stripeWidth, -2, 2 * (-stripeWidth))

\* Math.floor(rx / stripeWidth) with rx = u2 / 2 + 1e-10: NaN stands for the
\* infinite quotient of stripeWidth = 0, whose remainder is NaN.
StripePos(u2, stripeWidth) ==
    IF stripeWidth = 0 THEN NaN
    ELSE IF stripeWidth > 0 THEN EpsFloor(u2, 2, 2 * stripeWidth)
    ELSE EpsFloor(-u2, -2, 2 * (-stripeWidth))

\* stripePos % colors.length alone, which keeps the sign of stripePos (a
\* variant the modulo claim must tell from the code's double modulo).
StripeIndexNaive(stripePos, len) == JsMod(stripePos, len)

\* ((stripePos % colors.length) + colors.length) % colors.length
StripeIndex(stripePos, len) ==
    LET m == JsMod(stripePos, len)
    IN IF m = NaN THEN NaN ELSE JsMod(m + len, len)

generateStripes(width, height, stripeWidth, colors, tilt, offsetX, offsetY) ==
    LET CellAt(x, y) ==
            LET rx2 == RotX2(Dx2(x, width, offsetX), Dx2(y, height, offsetY), tilt)
                stripeIndex == StripeIndex(StripePos(rx2, stripeWidth), Len(colors))
            IN [color |-> ColorAt(colors, stripeIndex), level |-> stripeIndex]
        assigned == [x \in LoopRange(width), y \in LoopRange(height) |-> CellAt(x, y)]
    IN [grid |-> BuildGrid(width, height, assigned),
        width |-> width,
        height |-> height,
        stripeWidth |-> stripeWidth,
        colors |-> colors,
        tilt |-> tilt,
        offsetX |-> offsetX,
        offsetY |-> offsetY]

\* ------------------------------------------------- generateConcentricCircles
\* rx * rx + ry * ry over the common denominator 4 * ratioX^2 * ratioY^2,
\* for rx = u2 / 2 / ratioX and ry = v2 / 2 / ratioY.
CircleDist2(u2, v2, ratioX, ratioY) ==
    u2 * u2 * ratioY * ratioY + v2 * v2 * ratioX * ratioX

\* The sign of what the two 1e-10 of a cell add to rx * rx + ry * ry.
CircleEps(u2, v2, ratioX, ratioY) ==
    u2 * ratioY * ratioY + v2 * ratioX * ratioX

\* maxDistance^2 over the same denominator: the corners carry no 1e-10.
CirclesMax2(width, height, ratioX, ratioY, tilt, offsetX, offsetY) ==
    LET c == Corners(width, height)
        D(i) == LET dx2 == Dx2(c[i].x, width, offsetX)
                    dy2 == Dx2(c[i].y, height, offsetY)
                IN CircleDist2(RotX2(dx2, dy2, tilt), RotY2(dx2, dy2, tilt),
                               ratioX, ratioY)
    IN Max(Max(Max(Max(0, D(1)), D(2)), D(3)), D(4))

\* floor(sqrt((x + e * eps) / y)) for x >= 0, y > 0 (for e = 0 see CeilRootEps).
FloorRoot(x, y, e) ==
    LET r == Isqrt(x \div y)
    IN IF r * r * y = x /\ e < 0 THEN r - 1 ELSE r

\* ceil(sqrt(x / y)) for x >= 0, y > 0.
CeilRoot(x, y) ==
    LET r == Isqrt(x \div y)
    IN IF r * r * y = x THEN r ELSE r + 1

\* ceil(sqrt(x / y)) for a cell's x, which the 1e-10 moves by sign e. For a
\* cell whose e is 0 the squares of the two 1e-10 are all that is added: at
\* x = 0 they make the distance positive, at x > 0 they are lost in the
\* doubles, and on a boundary the quotient is the integer itself.
CeilRootEps(x, y, e) ==
    LET r == Isqrt(x \div y)
    IN IF r * r * y = x /\ (e < 0 \/ (e = 0 /\ x > 0)) THEN r ELSE r + 1

\* A variant without the `|| 1`: (distance / 0) * numLayers is Infinity for
\* numLayers > 0 (any value from numLayers on, once Math.min has cut it) and
\* NaN or -Infinity otherwise (NaN after the modulo).
CirclesCountFloorNoFallback(dist2, e, max2, numLayers, ratioX, ratioY) ==
    IF max2 = 0
    THEN IF numLayers > 0 THEN numLayers ELSE NaN
    ELSE IF numLayers > 0 THEN FloorRoot(numLayers * numLayers * dist2, max2, e)
    ELSE IF numLayers = 0 THEN 0
    ELSE -CeilRootEps(numLayers * numLayers * dist2, max2, e)

\* Math.floor((distance / (maxDistance || 1)) * numLayers)
CirclesCountFloor(dist2, e, max2, numLayers, ratioX, ratioY) ==
    LET den == IF max2 = 0 THEN 4 * ratioX * ratioX * ratioY * ratioY ELSE max2
        num == numLayers * numLayers * dist2
    IN IF numLayers > 0 THEN FloorRoot(num, den, e)
       ELSE IF numLayers = 0 THEN 0
       ELSE -CeilRootEps(num, den, e)

\* Math.floor((distance + layerThickness / 2) / layerThickness): the number
\* of odd multiples of layerThickness / 2 that distance has reached.
CirclesThicknessLevel(dist2, e, layerThickness, ratioX, ratioY) ==
    LET unit == layerThickness * Abs(ratioX * ratioY)
    IN (FloorRoot(dist2, unit * unit, e) + 1) \div 2

CirclesLevel(dist2, e, max2, numLayers, layerThickness, ratioX, ratioY) ==
    IF layerThickness # 0
    THEN CirclesThicknessLevel(dist2, e, layerThickness, ratioX, ratioY)
    ELSE Min(CirclesCountFloor(dist2, e, max2, numLayers, ratioX, ratioY),
             numLayers - 1)

\* Math.max(1, Math.ceil((maxDistance + layerThickness / 2) / layerThickness))
CirclesActualLayers(max2, layerThickness, ratioX, ratioY) ==
    LET unit == layerThickness * Abs(ratioX * ratioY)
    IN Max(1, (CeilRoot(max2, unit * unit) + 2) \div 2)

generateConcentricCircles(width, height, numLayers, colors, ratioX, ratioY, layerThickness, tilt, offsetX, offsetY) ==
    LET max2 == CirclesMax2(width, height, ratioX, ratioY, tilt, offsetX, offsetY)
        CellAt(x, y) ==
            LET dx2 == Dx2(x, width, offsetX)
                dy2 == Dx2(y, height, offsetY)
                u2 == RotX2(dx2, dy2, tilt)
                v2 == RotY2(dx2, dy2, tilt)
            IN LevelCell(
                   CirclesLevel(CircleDist2(u2, v2, ratioX, ratioY),
                                CircleEps(u2, v2, ratioX, ratioY),
                                max2, numLayers, layerThickness, ratioX, ratioY),
                   colors)
        assigned == [x \in LoopRange(width), y \in LoopRange(height) |-> CellAt(x, y)]
    IN [grid |-> BuildGrid(width, height, assigned),
        width |-> width,
        height |-> height,
        numLayers |-> IF layerThickness # 0
                      THEN CirclesActualLayers(max2, layerThickness, ratioX, ratioY)
                      ELSE numLayers,
        colors |-> colors,
        ratioX |-> ratioX,
        ratioY |-> ratioY,
        layerThickness |-> layerThickness,
        tilt |-> tilt,
        offsetX |-> offsetX,
        offsetY |-> offsetY]

\* ------------------------------------------------ generateConcentricPolygons
\* A variant that clamps to a hexagon.
PolygonSidesHexagon(numSides) == Max(6, numSides)

\* const sides = Math.max(3, numSides)
PolygonSides(numSides) == Max(3, numSides)

\* a / b < (P + sqrt(c)) / Q for positive a, b, by the continued fractions of
\* both sides.
RECURSIVE SurdBelow(_, _, _, _, _)
SurdBelow(a, b, P, Q, c) ==
    LET m == (P + Isqrt(c)) \div Q
        n == a \div b
        rest == a - m * b
        nextP == m * Q - P
    IN IF n # m THEN n < m
       ELSE IF rest = 0 THEN TRUE
       ELSE ~SurdBelow(b, rest, nextP, (c - nextP * nextP) \div Q, c)

\* The sign of p + q * sqrt(c) for a c that is no square: by the squares where
\* they fit the integers, else by SurdBelow.
SurdSign(p, q, c) ==
    IF q = 0 THEN Sign(p)
    ELSE IF p = 0 THEN Sign(q)
    ELSE IF Sign(p) = Sign(q) THEN Sign(p)
    ELSE IF Abs(p) < 2^15 /\ Abs(q) < 2^14
    THEN Sign(p) * Sign(p * p - c * q * q)
    ELSE IF SurdBelow(Abs(p), Abs(q), 0, 1, c) THEN Sign(q) ELSE Sign(p)

\* The radicand the cosines and sines of the polygon's angles need: sqrt(3)
\* for the triangle and the hexagon, sqrt(5) for the pentagon.
SurdRadicand(sides) == IF sides = 5 THEN 5 ELSE 3

\* The sign of a + b * w, where w = sqrt(3) for c = 3 and
\* w = (1 + sqrt(5)) / 2 = 2 * cos(36 degrees) for c = 5.
SeBase(a, b, c) == SurdSign(IF c = 5 THEN 2 * a + b ELSE a, b, c)
\* The sign of a sum of a part of sign sg[1] and a part of sign sg[2], where
\* the sign of the difference of their squares is sg[3].
SeSum(sg) ==
    IF sg[2] = 0 THEN sg[1]
    ELSE IF sg[1] = 0 \/ sg[1] = sg[2] THEN sg[2]
    ELSE sg[1] * sg[3]
\* The sign of (p + q * w) + (r + s * w) * T, where T = 2 * sin(36 degrees)
\* for c = 5, so w * w = w + 1 and T * T = 3 - w (for c = 3 the T part is 0).
SePart(p, q, r, s, c) ==
    SeSum([i \in 1..3 |->
              SeBase(IF i = 1 THEN p ELSE IF i = 2 THEN r
                     ELSE p * p + q * q - 3 * (r * r + s * s) + (2 * r * s + s * s),
                     IF i = 1 THEN q ELSE IF i = 2 THEN s
                     ELSE 2 * p * q + q * q + (r * r + s * s) - 2 * (2 * r * s + s * s),
                     c)])
\* The first of the signs that is not 0.
SeFirst(parts) == IF parts[1] # 0 THEN parts[1] ELSE parts[2]
\* The sign of the value v = (p + q * w) + (r + s * w) * T
\* + ((ep + eq * w) + (er + es * w) * T) * eps: where the exact part is 0 the
\* eps part decides. v.up is kept for the distance of a corner: the doubles
\* by which the code's double lies above the value (0 when it is not above,
\* 1 one, 2 two or more).
SeSign(v, c) ==
    SeFirst([i \in 1..2 |->
                IF i = 1 THEN SePart(v.p, v.q, v.r, v.s, c)
                ELSE SePart(v.ep, v.eq, v.er, v.es, c)])

\* distance = r * cos(((theta % angleStep) + angleStep) % angleStep - angleStep / 2)
\* is the projection of (rx, ry) on the bisector of the sector that holds the
\* point, and that is the largest of the projections on the bisectors of all
\* sectors. The bisectors are at angleStep / 2 + j * angleStep; each is given
\* as 2 * cos = cp + cq * w, 2 * sin = sp + sq * w + (tp + tq * w) * T.
Bisectors(sides) ==
    CASE sides = 3 ->
           <<[cp |-> 1, cq |-> 0, sp |-> 0, sq |-> 1, tp |-> 0, tq |-> 0],
             [cp |-> -2, cq |-> 0, sp |-> 0, sq |-> 0, tp |-> 0, tq |-> 0],
             [cp |-> 1, cq |-> 0, sp |-> 0, sq |-> -1, tp |-> 0, tq |-> 0]>>
      [] sides = 5 ->
           <<[cp |-> 0, cq |-> 1, sp |-> 0, sq |-> 0, tp |-> 1, tq |-> 0],
             [cp |-> 1, cq |-> -1, sp |-> 0, sq |-> 0, tp |-> 0, tq |-> 1],
             [cp |-> -2, cq |-> 0, sp |-> 0, sq |-> 0, tp |-> 0, tq |-> 0],
             [cp |-> 1, cq |-> -1, sp |-> 0, sq |-> 0, tp |-> 0, tq |-> -1],
             [cp |-> 0, cq |-> 1, sp |-> 0, sq |-> 0, tp |-> -1, tq |-> 0]>>
      [] sides = 6 ->
           <<[cp |-> 0, cq |-> 1, sp |-> 1, sq |-> 0, tp |-> 0, tq |-> 0],
             [cp |-> 0, cq |-> 0, sp |-> 2, sq |-> 0, tp |-> 0, tq |-> 0],
             [cp |-> 0, cq |-> -1, sp |-> 1, sq |-> 0, tp |-> 0, tq |-> 0],
             [cp |-> 0, cq |-> -1, sp |-> -1, sq |-> 0, tp |-> 0, tq |-> 0],
             [cp |-> 0, cq |-> 0, sp |-> -2, sq |-> 0, tp |-> 0, tq |-> 0],
             [cp |-> 0, cq |-> 1, sp |-> -1, sq |-> 0, tp |-> 0, tq |-> 0]>>

\* The common denominator of the polygon distances: rx = PolyRx / (2 * |ratioX * ratioY|)
\* and a projection doubles the denominator again.
PolyDen(ratioX, ratioY) == 4 * Abs(ratioX * ratioY)
PolyRx(u2, ratioX, ratioY) == Sign(ratioX) * Abs(ratioY) * u2
PolyRy(v2, ratioX, ratioY) == Sign(ratioY) * Abs(ratioX) * v2

\* The projection of (rx, ry), with eps parts (ex, ey), on bisector b.
Projection(rx, ry, ex, ey, b) ==
    [p |-> rx * b.cp + ry * b.sp, q |-> rx * b.cq + ry * b.sq,
     r |-> ry * b.tp, s |-> ry * b.tq,
     ep |-> ex * b.cp + ey * b.sp, eq |-> ex * b.cq + ey * b.sq,
     er |-> ey * b.tp, es |-> ey * b.tq, up |-> 0]

SeDiff(u, v) ==
    [p |-> u.p - v.p, q |-> u.q - v.q, r |-> u.r - v.r, s |-> u.s - v.s,
     ep |-> u.ep - v.ep, eq |-> u.eq - v.eq, er |-> u.er - v.er,
     es |-> u.es - v.es, up |-> 0]

\* Math.max(best, ...S): of equal values the one whose double is the largest.
RECURSIVE SeGreatest(_, _, _)
SeGreatest(S, best, c) ==
    IF S = {} THEN best
    ELSE LET v == CHOOSE x \in S : TRUE
         IN SeGreatest(S \ {v},
                       IF SeSign(SeDiff(v, best), c) >= (IF v.up >= best.up THEN 0 ELSE 1)
                       THEN v ELSE best, c)

\* 4 * a2 / 2 / ratio where that is an integer.
Quarters(a2, ratio) ==
    IF (2 * a2) % Abs(ratio) = 0
    THEN Sign(ratio) * Sign(a2) * ((2 * Abs(a2)) \div Abs(ratio))
    ELSE 0

\* 4 * rx and 4 * ry of the corners of the App's fabrics.
FabricQuarters ==
    UNION {{Quarters(Dx2(0, w[1], w[2]), w[3]), Quarters(Dx2(w[1] - 1, w[1], w[2]), w[3])} :
           w \in FabricSizes \X OffsetInputs \X RatioInputs}

\* The corners <<sides, 4 * rx, 4 * ry>>, with |4 * rx|, |4 * ry| <= 10 or
\* of the App's fabrics, whose distance d = r * Math.cos(...) is rational and
\* comes out above it in the doubles of Math.sqrt, Math.atan2 and Math.cos:
\* by one double (UpOne) or by more (UpMore). For a triangle and a pentagon
\* these are corners of the sector around 180 degrees (d = -rx), for a
\* hexagon of the sectors around 90 and 270 degrees (d = |ry|).
UpOne ==
    {<<3, -202, -202>>, <<3, -202, -101>>, <<3, -202, -99>>, <<3, -202, 99>>,
     <<3, -202, 194>>, <<3, -198, -198>>, <<3, -198, -101>>, <<3, -198, 97>>,
     <<3, -198, 198>>, <<3, -101, -101>>, <<3, -101, -22>>, <<3, -101, 97>>,
     <<3, -99, -99>>, <<3, -99, -22>>, <<3, -99, -18>>, <<3, -99, 14>>,
     <<3, -99, 18>>, <<3, -99, 99>>, <<3, -22, -22>>, <<3, -22, -18>>,
     <<3, -22, -11>>, <<3, -22, -9>>, <<3, -22, 9>>, <<3, -22, 14>>,
     <<3, -22, 18>>, <<3, -18, -18>>, <<3, -18, -9>>, <<3, -18, 7>>,
     <<3, -18, 9>>, <<3, -18, 18>>, <<3, -11, -11>>, <<3, -11, -9>>,
     <<3, -11, 7>>, <<3, -11, 9>>, <<3, -10, -10>>, <<3, -10, -7>>,
     <<3, -10, -6>>, <<3, -10, -5>>, <<3, -10, -3>>, <<3, -10, 3>>,
     <<3, -10, 5>>, <<3, -10, 6>>, <<3, -10, 7>>, <<3, -10, 10>>,
     <<3, -9, -9>>, <<3, -9, -8>>, <<3, -9, -5>>, <<3, -9, 5>>, <<3, -9, 8>>,
     <<3, -9, 9>>, <<3, -8, -9>>, <<3, -8, -8>>, <<3, -8, -7>>, <<3, -8, -6>>,
     <<3, -8, -4>>, <<3, -8, 4>>, <<3, -8, 6>>, <<3, -8, 7>>, <<3, -8, 8>>,
     <<3, -8, 9>>, <<3, -7, -6>>, <<3, -7, -5>>, <<3, -7, -1>>, <<3, -7, 1>>,
     <<3, -7, 5>>, <<3, -7, 6>>, <<3, -6, -8>>, <<3, -6, -6>>, <<3, -6, -3>>,
     <<3, -6, -2>>, <<3, -6, 2>>, <<3, -6, 3>>, <<3, -6, 6>>, <<3, -6, 8>>,
     <<3, -5, -5>>, <<3, -5, -3>>, <<3, -5, 3>>, <<3, -5, 5>>, <<3, -4, -4>>,
     <<3, -4, -3>>, <<3, -4, -2>>, <<3, -4, 2>>, <<3, -4, 3>>, <<3, -4, 4>>,
     <<3, -3, -4>>, <<3, -3, -3>>, <<3, -3, -1>>, <<3, -3, 1>>, <<3, -3, 3>>,
     <<3, -3, 4>>, <<3, -2, -2>>, <<3, -2, -1>>, <<3, -2, 1>>, <<3, -2, 2>>,
     <<3, -1, -1>>, <<3, -1, 1>>, <<5, -202, 97>>, <<5, -101, -22>>,
     <<5, -99, -18>>, <<5, -99, 18>>, <<5, -22, -9>>, <<5, -22, 9>>,
     <<5, -18, -11>>, <<5, -18, 7>>, <<5, -9, -6>>, <<5, -9, -5>>,
     <<5, -9, 5>>, <<5, -9, 6>>, <<5, -7, -4>>, <<5, -7, -3>>, <<5, -7, 3>>,
     <<5, -7, 4>>, <<6, -5, -9>>, <<6, -5, 9>>, <<6, 1, -7>>, <<6, 1, -3>>,
     <<6, 1, -2>>, <<6, 1, 2>>, <<6, 1, 3>>, <<6, 1, 7>>, <<6, 2, -7>>,
     <<6, 2, -6>>, <<6, 2, -4>>, <<6, 2, 4>>, <<6, 2, 6>>, <<6, 2, 7>>,
     <<6, 3, -7>>, <<6, 3, -6>>, <<6, 3, 6>>, <<6, 3, 7>>, <<6, 4, -8>>,
     <<6, 4, 8>>, <<6, 5, -10>>, <<6, 5, -9>>, <<6, 5, 9>>, <<6, 5, 10>>,
     <<6, 7, 14>>, <<6, 9, -22>>, <<6, 9, -18>>, <<6, 9, 18>>, <<6, 14, -99>>,
     <<6, 14, 99>>, <<6, 18, -99>>, <<6, 18, 97>>, <<6, 18, 99>>,
     <<6, 97, -202>>, <<6, 97, -198>>, <<6, 97, 198>>, <<6, 99, -202>>,
     <<6, 99, 194>>}
UpMore ==
    {<<3, -202, -198>>, <<3, -202, 97>>, <<3, -202, 198>>, <<3, -198, -202>>,
     <<3, -198, 194>>, <<3, -101, -99>>, <<3, -101, 99>>, <<3, -99, -101>>,
     <<3, -99, 97>>, <<3, -18, -22>>, <<3, -18, -11>>, <<3, -18, 14>>,
     <<3, -11, -18>>, <<3, -11, 14>>, <<3, -11, 18>>, <<3, -10, -9>>,
     <<3, -10, -8>>, <<3, -10, 8>>, <<3, -10, 9>>, <<3, -9, -11>>,
     <<3, -9, -10>>, <<3, -9, -7>>, <<3, -9, -6>>, <<3, -9, 6>>, <<3, -9, 7>>,
     <<3, -9, 10>>, <<3, -9, 14>>, <<3, -8, -10>>, <<3, -8, 10>>,
     <<3, -7, -10>>, <<3, -7, -9>>, <<3, -7, -8>>, <<3, -7, -7>>,
     <<3, -7, -4>>, <<3, -7, -3>>, <<3, -7, 3>>, <<3, -7, 4>>, <<3, -7, 7>>,
     <<3, -7, 8>>, <<3, -7, 9>>, <<3, -7, 10>>, <<3, -6, -10>>, <<3, -6, -9>>,
     <<3, -6, -7>>, <<3, -6, -5>>, <<3, -6, -4>>, <<3, -6, 4>>, <<3, -6, 5>>,
     <<3, -6, 7>>, <<3, -6, 9>>, <<3, -6, 10>>, <<3, -5, -8>>, <<3, -5, -7>>,
     <<3, -5, -6>>, <<3, -5, -4>>, <<3, -5, 4>>, <<3, -5, 6>>, <<3, -5, 7>>,
     <<3, -5, 8>>, <<3, -4, -6>>, <<3, -4, -5>>, <<3, -4, 5>>, <<3, -4, 6>>,
     <<3, -3, -5>>, <<3, -3, -2>>, <<3, -3, 2>>, <<3, -3, 5>>, <<3, -2, -3>>,
     <<3, -2, 3>>}

\* The doubles by which the distance of the corner (x4 / 4, y4 / 4) lies
\* above its value: 0 where it is not above it, and where the value is
\* irrational. On the ray theta = 0 of a triangle d = rx *
\* Math.cos(-Math.PI / 3), and that cosine is 0.5000000000000001, one
\* double above 1 / 2: the product lies one double above rx / 2, or two
\* where rx is 3 / 2 of a power of two or more.
CornerUp(sides, x4, y4) ==
    IF sides = 3 /\ y4 = 0 /\ x4 > 0
    THEN IF 2 * x4 < 3 * Binade(x4) THEN 1 ELSE 2
    ELSE IF <<sides, x4, y4>> \in UpOne THEN 1
    ELSE IF <<sides, x4, y4>> \in UpMore THEN 2
    ELSE CASE \/ Abs(x4) <= 10 /\ Abs(y4) <= 10
              \/ x4 \in FabricQuarters /\ y4 \in FabricQuarters -> 0

\* The polygon distance of the point with doubled rotated coordinates
\* (u2, v2); withEps is 1 for a cell (the code adds 1e-10) and 0 for a corner.
PolygonDistance(u2, v2, ratioX, ratioY, sides, withEps) ==
    LET c == SurdRadicand(sides)
        rx == PolyRx(u2, ratioX, ratioY)
        ry == PolyRy(v2, ratioX, ratioY)
        ex == withEps * PolyRx(2, ratioX, ratioY)
        ey == withEps * PolyRy(2, ratioX, ratioY)
        bs == Bisectors(sides)
    IN [SeGreatest({Projection(rx, ry, ex, ey, bs[i]) : i \in 2..Len(bs)},
                   Projection(rx, ry, ex, ey, bs[1]), c) EXCEPT
           !.up = IF withEps = 0
                  THEN CornerUp(sides, Quarters(u2, ratioX), Quarters(v2, ratioY))
                  ELSE 0]

SeZero ==
    [p |-> 0, q |-> 0, r |-> 0, s |-> 0, ep |-> 0, eq |-> 0, er |-> 0, es |-> 0,
     up |-> 0]
\* let maxDistance = 0; corners.forEach(... Math.max(maxDistance, dist))
PolygonsMaxDistance(width, height, ratioX, ratioY, tilt, offsetX, offsetY, sides) ==
    LET c == Corners(width, height)
        D(i) == LET dx2 == Dx2(c[i].x, width, offsetX)
                    dy2 == Dx2(c[i].y, height, offsetY)
                IN PolygonDistance(RotX2(dx2, dy2, tilt), RotY2(dx2, dy2, tilt),
                                   ratioX, ratioY, sides, 0)
    IN SeGreatest({D(i) : i \in 1..4}, SeZero, SurdRadicand(sides))

\* k * u as a value.
SeScale(k, u) ==
    [p |-> k * u.p, q |-> k * u.q, r |-> k * u.r, s |-> k * u.s,
     ep |-> k * u.ep, eq |-> k * u.eq, er |-> k * u.er, es |-> k * u.es,
     up |-> 0]
SeInt(n) == [SeZero EXCEPT !.p = n]

\* Math.floor((distance / (maxDistance || 1)) * numLayers), computed up to
\* numLayers (Math.min cuts it to numLayers - 1 anyway).
PolygonsCountFloor(dist, maxDistance, numLayers, den, c) ==
    LET m == IF [maxDistance EXCEPT !.up = 0] = SeZero THEN SeInt(den)
             ELSE maxDistance
    IN Greatest({k \in Min(0, 2 * numLayers - 2)..Max(0, numLayers) :
                    SeSign(SeDiff(SeScale(numLayers, dist), SeScale(k, m)), c) >= 0})

\* Math.floor((distance + layerThickness / 2) / layerThickness)
PolygonsThicknessLevel(dist, layerThickness, den, c) ==
    LET hi == (2 * (Abs(dist.p) + 2 * (Abs(dist.q) + Abs(dist.r)) + 4 * Abs(dist.s)) + 2)
                  \div (layerThickness * den) + 2
    IN Greatest({k \in 0..hi :
                    SeSign(SeDiff(SeScale(2, dist),
                                  SeInt((2 * k - 1) * layerThickness * den)), c) >= 0})

PolygonsLevel(dist, maxDistance, numLayers, layerThickness, den, c) ==
    IF layerThickness # 0
    THEN PolygonsThicknessLevel(dist, layerThickness, den, c)
    ELSE Min(PolygonsCountFloor(dist, maxDistance, numLayers, den, c),
             numLayers - 1)

\* The double of maxDistance + layerThickness / 2 is above the sum of the
\* values: the double of maxDistance = p / den lies above p / den by more
\* than half a spacing of the doubles around the sum, which are twice as far
\* apart as those around maxDistance when a power of two lies in
\* (maxDistance, maxDistance + layerThickness / 2].
SumAbove(maxDistance, layerThickness, den) ==
    LET p == maxDistance.p
        crossing ==
            \/ \E i \in 0..20 : /\ p < 2^i * den
                                 /\ 2^(i + 1) * den <= 2 * p + layerThickness * den
            \/ \E i \in 1..20 : /\ p * 2^i < den
                                 /\ 2 * den <= 2^i * (2 * p + layerThickness * den)
    IN IF crossing THEN maxDistance.up >= 2 ELSE maxDistance.up >= 1

\* Math.max(1, Math.ceil((maxDistance + layerThickness / 2) / layerThickness)).
\* Where maxDistance + layerThickness / 2 is a multiple k of layerThickness,
\* the sum of the doubles is above it, and the result k + 1, when the double
\* of maxDistance is above maxDistance by more than half a spacing of the
\* doubles around the sum.
PolygonsActualLayers(maxDistance, layerThickness, den, c) ==
    LET hi == (2 * (Abs(maxDistance.p) + 2 * (Abs(maxDistance.q) + Abs(maxDistance.r))
                        + 4 * Abs(maxDistance.s)) + 2)
                  \div (layerThickness * den) + 2
        least == Least({k \in 1..hi :
                     SeSign(SeDiff(SeInt((2 * k - 1) * layerThickness * den),
                                   SeScale(2, maxDistance)), c) >= 0})
        multiple == /\ maxDistance.q = 0 /\ maxDistance.r = 0 /\ maxDistance.s = 0
                    /\ (2 * maxDistance.p) % (layerThickness * den) = 0
                    /\ ((2 * maxDistance.p) \div (layerThickness * den)) % 2 = 1
    IN least + (IF multiple /\ SumAbove(maxDistance, layerThickness, den) THEN 1 ELSE 0)

generateConcentricPolygons(width, height, numSides, numLayers, colors, ratioX, ratioY, layerThickness, tilt, offsetX, offsetY) ==
    LET sides == PolygonSides(numSides)
        c == SurdRadicand(sides)
        den == PolyDen(ratioX, ratioY)
        maxDistance == PolygonsMaxDistance(width, height, ratioX, ratioY, tilt,
                                           offsetX, offsetY, sides)
        CellAt(x, y) ==
            LET dx2 == Dx2(x, width, offsetX)
                dy2 == Dx2(y, height, offsetY)
                dist == PolygonDistance(RotX2(dx2, dy2, tilt), RotY2(dx2, dy2, tilt),
                                        ratioX, ratioY, sides, 1)
            IN LevelCell(PolygonsLevel(dist, maxDistance, numLayers,
                                       layerThickness, den, c), colors)
        assigned == [x \in LoopRange(width), y \in LoopRange(height) |-> CellAt(x, y)]
    IN [grid |-> BuildGrid(width, height, assigned),
        width |-> width,
        height |-> height,
        numLayers |-> IF layerThickness # 0
                      THEN PolygonsActualLayers(maxDistance, layerThickness, den, c)
                      ELSE numLayers,
        numSides |-> sides,
        colors |-> colors,
        ratioX |-> ratioX,
        ratioY |-> ratioY,
        layerThickness |-> layerThickness,
        tilt |-> tilt,
        offsetX |-> offsetX,
        offsetY |-> offsetY]

\* --------------------------------------------------- generateIsometricCubes
\* const colorMap = [colors[0 % colors.length], colors[1 % colors.length],
\*                   colors[2 % colors.length]]
ColorMap(colors) ==
    [faceIndex \in 0..2 |-> ColorAt(colors, JsMod(faceIndex, Len(colors)))]

\* const hexRadius = Math.max(2, cubeSize)
HexRadius(cubeSize) == Max(2, cubeSize)

\* q, r and -q - r over the common denominator 6 * hexRadius, as
\* p + q * sqrt(3), for the doubled adjX and adjY.
HexQ(dx2, dy2) == [p |-> -dy2, q |-> dx2]
HexR(dx2, dy2) == [p |-> 2 * dy2, q |-> 0]
HexZ(dx2, dy2) == [p |-> -dy2, q |-> -dx2]

\* Math.round(v / (6 * hexRadius)): the largest k with v / (6 * hexRadius) >= k - 1 / 2.
HexRound(v, hexRadius) ==
    LET hi == (Abs(v.p) + 2 * Abs(v.q)) \div (6 * hexRadius) + 1
        Reached(k) == SurdSign(v.p - (2 * k - 1) * 3 * hexRadius, v.q, 3) >= 0
    IN CHOOSE k \in (-hi)..hi : Reached(k) /\ ~Reached(k + 1)

\* The number of halvings that bring a (a >= 1) below 2.
RECURSIVE BinadeExp(_)
BinadeExp(a) == IF a < 2 THEN 0 ELSE 1 + BinadeExp(a \div 2)

\* For adjX = 0 and adjY = m * hexRadius (m > 0 no multiple of 3), |q|,
\* |-q - r| and |r| / 2 are one double, computed for m / 3 as
\* (1 / 3 * adjY) / hexRadius. 1 / 3 is the double below 1 / 3 and the
\* product is the double below adjY / 3, unless 3 divides adjY; the
\* quotient by hexRadius then lies below m / 3 too. Where 3 divides
\* hexRadius the product is m * hexRadius / 3 itself, and the quotient is
\* the double nearest to m / 3: above it when the part of m / 3 that the
\* double cuts off is 2 / 3 of a spacing, which is (m * 2^(52 - e)) % 3 for
\* the doubles of [2^e, 2^(e + 1)).
ThirdAbove(m, hexRadius) ==
    /\ hexRadius % 3 = 0
    /\ (m * (IF BinadeExp((4 * m) \div 3) % 2 = 0 THEN 1 ELSE 2)) % 3 = 2

\* The side of the exact v / (6 * hexRadius) on which the code's double lies
\* in magnitude (-1 below, 1 above), where it decides a comparison: adjX = 0
\* and the value is a third that is no integer. 0 elsewhere.
ThirdSide(v, hexRadius) ==
    IF v.q = 0 /\ v.p % (2 * hexRadius) = 0 /\ (v.p \div (2 * hexRadius)) % 3 # 0
    THEN IF ThirdAbove(Abs(v.p) \div (2 * hexRadius), hexRadius) THEN 1 ELSE -1
    ELSE 0

\* Math.abs(k - v / (6 * hexRadius)) over the same denominator; lo is the
\* side of this exact value on which the code's double lies.
HexDiff(k, v, hexRadius) ==
    LET d == [p |-> 6 * hexRadius * k - v.p, q |-> -v.q]
        s == SurdSign(d.p, d.q, 3)
        lo == -s * Sign(v.p) * ThirdSide(v, hexRadius)
    IN IF s >= 0 THEN [p |-> d.p, q |-> d.q, lo |-> lo]
       ELSE [p |-> -d.p, q |-> -d.q, lo |-> lo]

\* a > b for two differences: the exact values decide, and between two equal
\* exact values, which are rational (adjX = 0) where the if-chain depends on
\* them, the doubles.
SurdGreater(a, b) ==
    LET s == SurdSign(a.p - b.p, a.q - b.q, 3)
    IN s > 0 \/ (s = 0 /\ CASE a.q = 0 -> a.lo > b.lo)

\* The three roundings alone, without the recomputation that follows them (a
\* variant the hex-coordinate claim must tell from the code).
HexCoordsNaive(dx2, dy2, hexRadius) ==
    [rx |-> HexRound(HexQ(dx2, dy2), hexRadius),
     ry |-> HexRound(HexR(dx2, dy2), hexRadius),
     rz |-> HexRound(HexZ(dx2, dy2), hexRadius)]

\* The hexagon (rx, ry, rz) of a point: the three roundings, then the one
\* with the largest rounding error recomputed from the other two. Where the
\* roundings add up to 0 each branch of the if-chain leaves them as they
\* are, whichever the comparisons take: these are the points with adjX # 0
\* where two of the differences have the same value (r is an integer, and
\* x_diff and z_diff differ by the rounding of -q - r only).
HexCoords(dx2, dy2, hexRadius) ==
    LET rx == HexRound(HexQ(dx2, dy2), hexRadius)
        ry == HexRound(HexR(dx2, dy2), hexRadius)
        rz == HexRound(HexZ(dx2, dy2), hexRadius)
        x_diff == HexDiff(rx, HexQ(dx2, dy2), hexRadius)
        y_diff == HexDiff(ry, HexR(dx2, dy2), hexRadius)
        z_diff == HexDiff(rz, HexZ(dx2, dy2), hexRadius)
    IN IF rx + ry + rz = 0
       THEN [rx |-> rx, ry |-> ry, rz |-> rz]
       ELSE IF SurdGreater(x_diff, y_diff) /\ SurdGreater(x_diff, z_diff)
       THEN [rx |-> -ry - rz, ry |-> ry, rz |-> rz]
       ELSE IF SurdGreater(y_diff, z_diff)
       THEN [rx |-> rx, ry |-> -rx - rz, rz |-> rz]
       ELSE [rx |-> rx, ry |-> ry, rz |-> -rx - ry]

\* 2 * (adjX - hexCenterX) as p + q * sqrt(3), and 2 * (adjY - hexCenterY).
FromCenterX(dx2, hex, hexRadius) ==
    [p |-> dx2, q |-> -hexRadius * (2 * hex.rx + hex.ry)]
FromCenterY(dy2, hex, hexRadius) == dy2 - 3 * hexRadius * hex.ry

\* The band of angle = atan2(vy, vx) in degrees: [-150, -30) is face 0,
\* [-30, 90) is face 1, the rest is face 2. The lines at -150 and -30 degrees
\* are vx = sqrt(3) * vy and vx = -sqrt(3) * vy; atan2(0, 0) is 0. For a
\* point on the -150 line Math.atan2(...) * 180 / Math.PI is
\* -150.00000000000003, below -150: the point is in face 2.
FaceIndex(vx, vy) ==
    IF vx.p = 0 /\ vx.q = 0 /\ vy = 0 THEN 1
    ELSE IF SurdSign(vx.p, vx.q - vy, 3) > 0 /\ SurdSign(vx.p, vx.q + vy, 3) < 0
    THEN 0
    ELSE IF SurdSign(vx.p, vx.q, 3) > 0 /\ SurdSign(vx.p, vx.q + vy, 3) >= 0
    THEN 1
    ELSE 2

CubeFace(dx2, dy2, hexRadius) ==
    LET hex == HexCoords(dx2, dy2, hexRadius)
    IN FaceIndex(FromCenterX(dx2, hex, hexRadius), FromCenterY(dy2, hex, hexRadius))

generateIsometricCubes(width, height, cubeSize, colors, offsetX, offsetY) ==
    LET colorMap == ColorMap(colors)
        hexRadius == HexRadius(cubeSize)
        CellAt(x, y) ==
            LET faceIndex == CubeFace(Dx2(x, width, offsetX),
                                      Dx2(y, height, offsetY), hexRadius)
            IN [color |-> colorMap[faceIndex], level |-> faceIndex]
        assigned == [x \in LoopRange(width), y \in LoopRange(height) |-> CellAt(x, y)]
    IN [grid |-> BuildGrid(width, height, assigned),
        width |-> width,
        height |-> height,
        cubeSize |-> cubeSize,
        colors |-> colors,
        offsetX |-> offsetX,
        offsetY |-> offsetY]

\* --------------------------------------------------------------- the App
\* config: the App's state. effectDeps: the dependency values of the render
\* in which the colour-sync effect last ran (NoDeps before the first run).
\* lastOp: the ControlPanel operation that ran last. events: the events the
\* user has raised. In the App pc is "effects" while the colour-sync effect
\* of the last render is due, "pending" while the update the effect has
\* queued awaits its render, and "quiescent" otherwise; config and pattern
\* are those of the last render (pattern holds the fields of the useMemo
\* pattern that the effect reads).
DefaultConfig ==
    [width |-> 100, height |-> 100, numSquares |-> 5, patternType |-> "squares",
     colors |-> Palette, ratioX |-> 1, ratioY |-> 1, squaresSizeMode |-> "count",
     layerThickness |-> 10, tilt |-> 0, numSides |-> 5, offsetX |-> 0,
     offsetY |-> 0, canvasType |-> "standard"]

NoDeps == <<>>

\* COLOR_PALETTES: two of the palettes, all of which have five colours.
ColorPalettes ==
    [earthTones |-> <<"#8B7355", "#A0826D", "#C9B299", "#E8D5C4", "#F5EBE0">>,
     pastelGarden |-> Palette]

\* return COLOR_PALETTES[key] || COLOR_PALETTES.pastelGarden
getPalette(key) ==
    IF key \in DOMAIN ColorPalettes THEN ColorPalettes[key]
    ELSE ColorPalettes.pastelGarden

PaletteKeys == {"earthTones", ""}

PatternTypes == {"squares", "circles", "stripes", "polygons", "cubes"}

ConcentricTypes == {"squares", "circles", "polygons"}

\* What the App's user types or picks besides fabric sizes, offsets and
\* ratios: layer thicknesses, polygon sides, sizes (layer count, stripe
\* width, cube size, colour count), tilts and canvas types.
LayerThicknesses == {10, 40}
SidesInputs == {3, 6}
SizeInputs == {-1} \cup (1..MaxLayers)
TiltInputs == {0, 360}
CanvasTypes == {"standard", "sudan"}

\* pattern?.numSquares of a pattern that has no such field.
UndefinedCount == -98

\* config.squaresSizeMode === 'thickness' ? config.layerThickness : null
AppThickness(cfg) ==
    IF cfg.squaresSizeMode = "thickness" THEN cfg.layerThickness ELSE 0

\* numSquares, numLayers and numSides of the pattern the useMemo computes
\* from cfg. For circles and polygons the layer count at 360 degrees is the
\* one at 0 degrees: Math.sin(2 * Math.PI) = -2.45e-16 moves a corner by less
\* than 1e-13, and no corner distance of the App's fabrics is that close to
\* a layer boundary.
PatternFields(cfg) ==
    LET t == AppThickness(cfg)
        tilt == IF cfg.tilt = 360 THEN 0 ELSE cfg.tilt
    IN
    CASE cfg.patternType = "squares" ->
           [numSquares |->
                IF t # 0
                THEN EpsActualLayers(
                         SquaresMaxDistance(cfg.width, cfg.height, cfg.ratioX,
                             cfg.ratioY, cfg.tilt, cfg.offsetX, cfg.offsetY), t)
                ELSE cfg.numSquares,
            numLayers |-> UndefinedCount,
            numSides |-> UndefinedCount]
      [] cfg.patternType = "circles" ->
           [numSquares |-> UndefinedCount,
            numLayers |->
                IF t # 0
                THEN CirclesActualLayers(
                         CirclesMax2(cfg.width, cfg.height, cfg.ratioX, cfg.ratioY,
                             tilt, cfg.offsetX, cfg.offsetY),
                         t, cfg.ratioX, cfg.ratioY)
                ELSE cfg.numSquares,
            numSides |-> UndefinedCount]
      [] cfg.patternType = "polygons" ->
           [numSquares |-> UndefinedCount,
            numLayers |->
                IF t # 0
                THEN PolygonsActualLayers(
                         PolygonsMaxDistance(cfg.width, cfg.height, cfg.ratioX,
                             cfg.ratioY, tilt, cfg.offsetX, cfg.offsetY,
                             PolygonSides(cfg.numSides)),
                         t, PolyDen(cfg.ratioX, cfg.ratioY),
                         SurdRadicand(PolygonSides(cfg.numSides)))
                ELSE cfg.numSquares,
            numSides |-> PolygonSides(cfg.numSides)]
      [] OTHER ->
           [numSquares |-> UndefinedCount, numLayers |-> UndefinedCount,
            numSides |-> UndefinedCount]

\* useEffect(..., [..., config.colors]): a dependency list that also holds
\* the colours the effect itself sets (a variant the termination claim must
\* tell from the code's list).
EffectDepsWithColors(cfg, pat) ==
    <<cfg.numSquares, cfg.squaresSizeMode, cfg.layerThickness,
      cfg.patternType, pat.numSquares, pat.numLayers, pat.numSides,
      cfg.colors>>

\* The dependency list of the colour-sync effect in a render with config cfg
\* and memoised pattern pat.
EffectDeps(cfg, pat) ==
    <<cfg.numSquares, cfg.squaresSizeMode, cfg.layerThickness,
      cfg.patternType, pat.numSquares, pat.numLayers, pat.numSides>>

\* let neededCount = config.numSquares; in thickness mode, for squares and
\* circles, pattern.numSquares || pattern.numLayers.
NeededCount(cfg, pat) ==
    IF /\ cfg.squaresSizeMode = "thickness"
       /\ cfg.patternType \in {"squares", "circles"}
       /\ (pat.numSquares # UndefinedCount \/ pat.numLayers # UndefinedCount)
    THEN IF pat.numSquares # UndefinedCount /\ pat.numSquares # 0
         THEN pat.numSquares
         ELSE pat.numLayers
    ELSE cfg.numSquares

\* The colours the effect sets: config.colors cycled up to neededCount, or
\* cut to neededCount.
SyncedColors(colors, neededCount) ==
    IF Len(colors) < neededCount
    THEN [i \in 1..neededCount |-> colors[((i - 1) % Len(colors)) + 1]]
    ELSE SubSeq(colors, 1, neededCount)

\* findPeriod: the least p <= length / 2 with colors[i] = colors[i % p] for
\* all i >= p, else the length.
findPeriod(colors) ==
    LET Repeats(p) ==
            \A i \in p..(Len(colors) - 1) : colors[i + 1] = colors[(i % p) + 1]
        periods == {p \in 1..(Len(colors) \div 2) : Repeats(p)}
    IN IF Len(colors) <= 1 THEN Len(colors)
       ELSE IF periods = {} THEN Len(colors)
       ELSE CHOOSE p \in periods : \A other \in periods : p <= other

\* ResizedColors without the splice.
ResizedColorsNoSplice(colors, newNum) ==
    IF newNum > Len(colors)
    THEN LET period == findPeriod(colors)
         IN [i \in 1..newNum |->
                IF i <= Len(colors) THEN colors[i]
                ELSE colors[((i - 1) % period) + 1]]
    ELSE colors

\* newColors after handleNumSquaresChange / handleNumColorsChange: the
\* sequence repeated with its period up to newNum, or spliced to newNum.
ResizedColors(colors, newNum) ==
    IF newNum > Len(colors)
    THEN LET period == findPeriod(colors)
         IN [i \in 1..newNum |->
                IF i <= Len(colors) THEN colors[i]
                ELSE colors[((i - 1) % period) + 1]]
    ELSE SubSeq(colors, 1, newNum)

\* The colours handlePatternTypeChange('cubes') sets: padded with '#abcdef'
\* to three, then the first three.
CubeColors(colors) ==
    [i \in 1..CubeColorCount |-> IF i <= Len(colors) THEN colors[i] ELSE FallbackColor]

\* editingColorIndex of a closed colour picker: useState(null).
NullIndex == -97

\* editingColorIndex: the index of the colour the colour picker edits.
\* events: the number of events the user has raised.
VARIABLES config, effectDeps, lastOp, editingColorIndex, events

appVars == <<config, effectDeps, lastOp, editingColorIndex, events>>

\* ---------------------------------------------------------------- the calls
\* pc: "idle" before the call, "returned" after it. args: the call (the
\* generator and its arguments). pattern: what the call returned.
\* stitchCounts: what countStitchesByColor returned for the pattern.
\* earlier: the pattern an earlier call returned, as it was returned.
VARIABLES pc, args, pattern, stitchCounts, earlier

\* heap: the arrays created so far by the caller and by the generators; the
\* address of an array is its index, and an array that holds arrays (a grid)
\* holds their addresses. refs: the addresses of the colors array passed to
\* the call, of the grid the call returned and of the grid the caller keeps
\* from an earlier call (0 where there is none).
VARIABLES heap, refs

memVars == <<heap, refs>>

vars ==
    <<pc, args, pattern, stitchCounts, earlier, heap, refs, config, effectDeps,
      lastOp, editingColorIndex, events>>

NoPattern == [grid |-> <<>>]

NoCounts == [color \in {} |-> 0]

\* The generators called on their own: the App's state plays no part.
AppNotStarted ==
    /\ config = DefaultConfig
    /\ effectDeps = NoDeps
    /\ lastOp = "none"
    /\ editingColorIndex = NullIndex
    /\ events = 0

\* const colors = [...]: an array of colours.
ColorsArray(colors) == [kind |-> "colors", items |-> colors]

\* No generator has been called: the heap holds the colors array of the call.
CallerMemory ==
    /\ heap = <<ColorsArray(args.colors)>>
    /\ refs = [colors |-> 1, grid |-> 0, kept |-> 0]

\* No call has been set up.
NoMemory ==
    /\ heap = <<>>
    /\ refs = [colors |-> 0, grid |-> 0, kept |-> 0]

\* The colors parameter of the generator: the array at the address passed.
PassedColors == heap[refs.colors].items

\* AllocGrid for generators that keep their grid between the calls and fill
\* it again when the next call has the same width and height.
AllocGridScratch(h, width, height) ==
    LET scratch == {a \in DOMAIN h :
                       /\ h[a].kind = "grid"
                       /\ Len(h[a].items) = height
                       /\ Len(h[h[a].items[1]].items) = width}
    IN IF scratch # {}
       THEN [heap |-> h, grid |-> Greatest(scratch)]
       ELSE [heap |-> h \o [y \in 1..height |->
                                [kind |-> "row", items |-> [x \in 1..width |-> NullCell]]]
                        \o <<[kind |-> "grid", items |-> [y \in 1..height |-> Len(h) + y]]>>,
             grid |-> Len(h) + height + 1]

\* const grid = Array(height).fill(null).map(() => Array(width).fill(null)):
\* map creates a new array of `height` entries, and its callback a new array
\* of `width` nulls for each of them (the array Array(height).fill(null) is
\* dropped). The result is the heap with the new arrays and the address of
\* the grid.
AllocGrid(h, width, height) ==
    [heap |-> h \o [y \in 1..height |->
                       [kind |-> "row", items |-> [x \in 1..width |-> NullCell]]]
               \o <<[kind |-> "grid", items |-> [y \in 1..height |-> Len(h) + y]]>>,
     grid |-> Len(h) + height + 1]

\* for y, for x: grid[y][x] = cells[y][x]. Each assignment writes into the
\* array whose address is entry y of the array at g; of the rows written into
\* one array the last one stays.
StoreCells(h, g, cells) ==
    [a \in DOMAIN h |->
        LET written == {y \in DOMAIN h[g].items : h[g].items[y] = a}
        IN IF written = {} THEN h[a]
           ELSE [h[a] EXCEPT !.items = cells[Greatest(written)]]]

\* The rows of the grid at address g, read through the heap.
GridAt(h, g) == [y \in DOMAIN h[g].items |-> h[h[g].items[y]].items]

\* What a generator does to the arrays: it creates its grid and assigns the
\* cells; it reads colors and returns { grid, ..., colors }.
GridBuilt(built) ==
    /\ heap' = StoreCells(built.heap, built.grid, pattern'.grid)
    /\ refs' = [refs EXCEPT !.grid = built.grid]

\* The layered generators, each with the numSides a caller passes (0 where
\* the generator takes none).
LayeredGenerators ==
    {<<"generateConcentricSquares", 0>>, <<"generateConcentricCircles", 0>>}
        \cup {<<"generateConcentricPolygons", numSides>> : numSides \in SideCounts}

\* generateStripes and generateIsometricCubes: size is stripeWidth or cubeSize.
PlainGenerators == {"generateStripes", "generateIsometricCubes"}

\* A call of a layered generator, its offsets taken from `offsets`.
LayeredCallWithin(offsets) ==
    \E gen \in LayeredGenerators, width \in Widths, height \in Heights,
       mode \in SizeModes, colors \in ColorLists, ratioX \in Ratios,
       ratioY \in Ratios, tilt \in Tilts, offsetX \in offsets,
       offsetY \in offsets :
        args = [fn |-> gen[1], width |-> width, height |-> height,
                size |-> mode[1], numSides |-> gen[2], colors |-> colors,
                ratioX |-> ratioX, ratioY |-> ratioY,
                layerThickness |-> mode[2], tilt |-> tilt,
                offsetX |-> offsetX, offsetY |-> offsetY]

LayeredCall == LayeredCallWithin(Offsets)

PlainCallWithin(offsets) ==
    \E fn \in PlainGenerators, width \in Widths, height \in Heights,
       size \in Sizes, colors \in ColorLists, tilt \in Tilts,
       offsetX \in offsets, offsetY \in offsets :
        args = [fn |-> fn, width |-> width, height |-> height, size |-> size,
                numSides |-> 0, colors |-> colors, ratioX |-> 1, ratioY |-> 1,
                layerThickness |-> 0, tilt |-> tilt, offsetX |-> offsetX,
                offsetY |-> offsetY]

PlainCall == PlainCallWithin(Offsets)

Init ==
    /\ pc = "idle"
    /\ pattern = NoPattern
    /\ stitchCounts = NoCounts
    /\ earlier = NoPattern
    /\ AppNotStarted
    /\ (LayeredCall \/ PlainCall)
    /\ CallerMemory

CallSquares ==
    /\ pc = "idle"
    /\ args.fn = "generateConcentricSquares"
    /\ pattern' = generateConcentricSquares(args.width, args.height, args.size,
                      PassedColors, args.ratioX, args.ratioY,
                      args.layerThickness, args.tilt, args.offsetX, args.offsetY)
    /\ pc' = "returned"
    /\ GridBuilt(AllocGrid(heap, args.width, args.height))
    /\ UNCHANGED <<args, stitchCounts, earlier, appVars>>

CallCircles ==
    /\ pc = "idle"
    /\ args.fn = "generateConcentricCircles"
    /\ pattern' = generateConcentricCircles(args.width, args.height, args.size,
                      PassedColors, args.ratioX, args.ratioY,
                      args.layerThickness, args.tilt, args.offsetX, args.offsetY)
    /\ pc' = "returned"
    /\ GridBuilt(AllocGrid(heap, args.width, args.height))
    /\ UNCHANGED <<args, stitchCounts, earlier, appVars>>

CallPolygons ==
    /\ pc = "idle"
    /\ args.fn = "generateConcentricPolygons"
    /\ pattern' = generateConcentricPolygons(args.width, args.height,
                      args.numSides, args.size, PassedColors, args.ratioX,
                      args.ratioY, args.layerThickness, args.tilt,
                      args.offsetX, args.offsetY)
    /\ pc' = "returned"
    /\ GridBuilt(AllocGrid(heap, args.width, args.height))
    /\ UNCHANGED <<args, stitchCounts, earlier, appVars>>

CallStripes ==
    /\ pc = "idle"
    /\ args.fn = "generateStripes"
    /\ pattern' = generateStripes(args.width, args.height, args.size,
                      PassedColors, args.tilt, args.offsetX, args.offsetY)
    /\ pc' = "returned"
    /\ GridBuilt(AllocGrid(heap, args.width, args.height))
    /\ UNCHANGED <<args, stitchCounts, earlier, appVars>>

CallCubes ==
    /\ pc = "idle"
    /\ args.fn = "generateIsometricCubes"
    /\ pattern' = generateIsometricCubes(args.width, args.height, args.size,
                      PassedColors, args.offsetX, args.offsetY)
    /\ pc' = "returned"
    /\ GridBuilt(AllocGrid(heap, args.width, args.height))
    /\ UNCHANGED <<args, stitchCounts, earlier, appVars>>

Next ==
    \/ CallSquares
    \/ CallCircles
    \/ CallPolygons
    \/ CallStripes
    \/ CallCubes

Spec == Init /\ [][Next]_vars

\* ------------------------------------------------- countStitchesByColor
\* counts[color] = (counts[color] || 0) + 1, overwriting the count instead of
\* adding to it (a variant the histogram claim must tell from the code).
CountCellOnce(counts, color) ==
    [c \in DOMAIN counts \cup {color} |-> IF c = color THEN 1 ELSE counts[c]]

\* counts[color] = (counts[color] || 0) + 1
CountCell(counts, color) ==
    [c \in DOMAIN counts \cup {color} |->
        IF c # color THEN counts[c]
        ELSE IF c \in DOMAIN counts THEN counts[c] + 1
        ELSE 1]

\* row.forEach(cell => ...) starting from `counts`.
CountRow(counts, row) ==
    LET after[i \in 0..Len(row)] ==
            IF i = 0 THEN counts ELSE CountCell(after[i - 1], row[i].color)
    IN after[Len(row)]

\* pattern.grid.forEach(row => row.forEach(...)) starting from {}.
countStitchesByColor(pat) ==
    LET after[i \in 0..Len(pat.grid)] ==
            IF i = 0 THEN NoCounts ELSE CountRow(after[i - 1], pat.grid[i])
    IN after[Len(pat.grid)]

\* The App's calls with the pattern centred (zero offsets), each followed
\* by the stitch count of the pattern it returned.
InitCounting ==
    /\ pc = "idle"
    /\ pattern = NoPattern
    /\ stitchCounts = NoCounts
    /\ earlier = NoPattern
    /\ AppNotStarted
    /\ (LayeredCallWithin({0}) \/ PlainCallWithin({0}))
    /\ CallerMemory

CountStitches ==
    /\ pc = "returned"
    /\ stitchCounts' = countStitchesByColor(pattern)
    /\ pc' = "counted"
    /\ UNCHANGED <<args, pattern, earlier, memVars, appVars>>

NextCounting ==
    \/ Next
    \/ CountStitches

SpecCounting == InitCounting /\ [][NextCounting]_vars

\* ------------------------------------------------- squares, tilted a full turn
\* Calls of generateConcentricSquares with positive ratios at tilt 0 and at
\* tilt 360.
SquareTilts == {0, 360}

TiltedCall ==
    \E width \in Widths, height \in Heights, mode \in SizeModes,
       colors \in ColorLists, ratioX \in Ratios, ratioY \in Ratios,
       tilt \in SquareTilts, offsetX \in Offsets, offsetY \in Offsets :
        /\ ratioX > 0
        /\ ratioY > 0
        /\ args = [fn |-> "generateConcentricSquares", width |-> width,
                   height |-> height, size |-> mode[1], numSides |-> 0,
                   colors |-> colors, ratioX |-> ratioX, ratioY |-> ratioY,
                   layerThickness |-> mode[2], tilt |-> tilt,
                   offsetX |-> offsetX, offsetY |-> offsetY]

InitTilt ==
    /\ pc = "idle"
    /\ pattern = NoPattern
    /\ stitchCounts = NoCounts
    /\ earlier = NoPattern
    /\ AppNotStarted
    /\ TiltedCall
    /\ CallerMemory

NextTilt == CallSquares

SpecTilt == InitTilt /\ [][NextTilt]_vars

\* ------------------------------------------------- stripes on wider grids
\* Calls of generateStripes alone, on grids up to StripesMaxWidth wide.
StripesCall ==
    \E width \in 1..StripesMaxWidth, height \in Heights, size \in Sizes,
       colors \in ColorLists, tilt \in Tilts, offsetX \in Offsets,
       offsetY \in Offsets :
        args = [fn |-> "generateStripes", width |-> width, height |-> height,
                size |-> size, numSides |-> 0, colors |-> colors,
                ratioX |-> 1, ratioY |-> 1, layerThickness |-> 0,
                tilt |-> tilt, offsetX |-> offsetX, offsetY |-> offsetY]

InitStripes ==
    /\ pc = "idle"
    /\ pattern = NoPattern
    /\ stitchCounts = NoCounts
    /\ earlier = NoPattern
    /\ AppNotStarted
    /\ StripesCall
    /\ CallerMemory

NextStripes == CallStripes

SpecStripes == InitStripes /\ [][NextStripes]_vars

\* ---------------------------------------------------- one call after another
\* A caller that keeps the pattern a first call returned and calls a
\* generator again, on small grids.
RepeatSizes == 1..2

RepeatCall ==
    \/ \E gen \in {<<"generateConcentricSquares", 0>>,
                    <<"generateConcentricCircles", 0>>,
                    <<"generateConcentricPolygons", 3>>},
          width \in RepeatSizes, height \in RepeatSizes,
          mode \in {<<2, 0>>, <<0, 1>>}, count \in 1..2 :
          args' = [fn |-> gen[1], width |-> width, height |-> height,
                   size |-> mode[1], numSides |-> gen[2],
                   colors |-> SubSeq(Palette, 1, count), ratioX |-> 1,
                   ratioY |-> 1, layerThickness |-> mode[2], tilt |-> 0,
                   offsetX |-> 0, offsetY |-> 0]
    \/ \E fn \in PlainGenerators, width \in RepeatSizes, height \in RepeatSizes,
          size \in RepeatSizes, count \in 1..2 :
          args' = [fn |-> fn, width |-> width, height |-> height, size |-> size,
                   numSides |-> 0, colors |-> SubSeq(Palette, 1, count),
                   ratioX |-> 1, ratioY |-> 1, layerThickness |-> 0, tilt |-> 0,
                   offsetX |-> 0, offsetY |-> 0]

\* No call made yet.
InitCalls ==
    /\ pc = "start"
    /\ args = [fn |-> "none"]
    /\ pattern = NoPattern
    /\ stitchCounts = NoCounts
    /\ earlier = NoPattern
    /\ NoMemory
    /\ AppNotStarted

\* The caller sets up its first call.
FirstCall ==
    /\ pc = "start"
    /\ RepeatCall
    /\ heap' = Append(heap, ColorsArray(args'.colors))
    /\ refs' = [refs EXCEPT !.colors = Len(heap')]
    /\ pc' = "idle"
    /\ UNCHANGED <<pattern, stitchCounts, earlier, appVars>>

\* The caller keeps the pattern it got and sets up another call.
CallAgain ==
    /\ pc = "returned"
    /\ earlier = NoPattern
    /\ RepeatCall
    /\ earlier' = pattern
    /\ pattern' = NoPattern
    /\ heap' = Append(heap, ColorsArray(args'.colors))
    /\ refs' = [colors |-> Len(heap'), grid |-> 0, kept |-> refs.grid]
    /\ pc' = "idle"
    /\ UNCHANGED <<stitchCounts, appVars>>

NextCalls == FirstCall \/ CallAgain \/ Next

SpecCalls == InitCalls /\ [][NextCalls]_vars

\* ------------------------------------------------------------- findPeriod
\* Calls of findPeriod with colour arrays of up to MaxPeriodLen entries;
\* pattern holds what the call returned.
ColorArrays ==
    UNION {[1..len -> {Palette[1], Palette[2], Palette[3]}] : len \in 0..MaxPeriodLen}

InitPeriod ==
    /\ pc = "idle"
    /\ pattern = NoPattern
    /\ stitchCounts = NoCounts
    /\ earlier = NoPattern
    /\ AppNotStarted
    /\ \E colors \in ColorArrays : args = [fn |-> "findPeriod", colors |-> colors]
    /\ CallerMemory

CallFindPeriod ==
    /\ pc = "idle"
    /\ args.fn = "findPeriod"
    /\ pattern' = [period |-> findPeriod(args.colors)]
    /\ pc' = "returned"
    /\ UNCHANGED <<args, stitchCounts, earlier, memVars, appVars>>

NextPeriod == CallFindPeriod

SpecPeriod == InitPeriod /\ [][NextPeriod]_vars

\* ------------------------------------------------------ the App's steps
NoCall == [fn |-> "none"]

\* The App mounts with the default configuration. The colour-sync effect is
\* due after the first render.
InitApp ==
    /\ pc = "effects"
    /\ args = NoCall
    /\ stitchCounts = NoCounts
    /\ earlier = NoPattern
    /\ NoMemory
    /\ config = DefaultConfig
    /\ pattern = PatternFields(config)
    /\ effectDeps = NoDeps
    /\ lastOp = "none"
    /\ editingColorIndex = NullIndex
    /\ events = 0

Quiescent == pc = "quiescent"

\* An event is handled when no effect is due: after the last render's effect,
\* also while the update the effect has queued awaits its render ("pending").
\* The handler is the last render's, and so is the config it spreads.
HandlesEvents ==
    /\ pc \in {"quiescent", "pending"}
    /\ events < MaxEvents

Concentric(cfg) == cfg.patternType \in ConcentricTypes

\* onChange(cfg) of a ControlPanel handler: setConfig, the next render with
\* its pattern, and the colour-sync effect due if one of its dependencies
\* differs from the last run's. setConfig(cfg) replaces the state, also the
\* one an update queued by the effect would have given.
Change(op, cfg) ==
    /\ HandlesEvents
    /\ config' = cfg
    /\ pattern' = PatternFields(cfg)
    /\ pc' = IF EffectDeps(cfg, pattern') # effectDeps THEN "effects" ELSE "quiescent"
    /\ lastOp' = op
    /\ events' = events + 1
    /\ UNCHANGED <<args, stitchCounts, earlier, memVars, effectDeps, editingColorIndex>>

\* handleChange('width', value), handleChange('height', value)
handleChangeFabric ==
    \E value \in FabricSizes :
        \/ Change("handleChange", [config EXCEPT !.width = value])
        \/ Change("handleChange", [config EXCEPT !.height = value])

\* handleChange('canvasType', value)
handleChangeCanvasType ==
    \E value \in CanvasTypes :
        Change("handleChange", [config EXCEPT !.canvasType = value])

\* handleChange('offsetX', value), handleChange('offsetY', value)
handleChangeOffset ==
    \E value \in OffsetInputs :
        \/ Change("handleChange", [config EXCEPT !.offsetX = value])
        \/ Change("handleChange", [config EXCEPT !.offsetY = value])

\* handleChange('ratioX', value), handleChange('ratioY', value), shown for
\* the concentric patterns.
handleChangeRatio ==
    /\ Concentric(config)
    /\ \E value \in RatioInputs :
          \/ Change("handleChange", [config EXCEPT !.ratioX = value])
          \/ Change("handleChange", [config EXCEPT !.ratioY = value])

\* onChange({ ...config, tilt: value }) of the tilt inputs, shown for the
\* concentric patterns and the stripes.
handleChangeTilt ==
    /\ Concentric(config) \/ config.patternType = "stripes"
    /\ \E value \in TiltInputs :
          Change("onChange", [config EXCEPT !.tilt = value])

\* handleChange('squaresSizeMode', mode): the two buttons, shown for the
\* concentric patterns.
handleChangeSizeMode ==
    /\ Concentric(config)
    /\ \E mode \in {"count", "thickness"} :
          Change("handleChange", [config EXCEPT !.squaresSizeMode = mode])

\* The size input of a concentric pattern in thickness mode:
\* handleChange('layerThickness', val).
handleChangeLayerThickness ==
    /\ Concentric(config)
    /\ config.squaresSizeMode = "thickness"
    /\ \E val \in LayerThicknesses :
          Change("handleChange", [config EXCEPT !.layerThickness = val])

\* handleChange('numSides', value), shown for polygons.
handleChangeNumSides ==
    /\ config.patternType = "polygons"
    /\ \E value \in SidesInputs :
          Change("handleChange", [config EXCEPT !.numSides = value])

\* handleColorChange(index, color)
handleColorChange ==
    \E index \in {0}, color \in {FallbackColor} :
        /\ index < Len(config.colors)
        /\ Change("handleColorChange",
                  [config EXCEPT !.colors = [config.colors EXCEPT ![index + 1] = color]])

\* handleNumSquaresChange(num)
NumSquaresChange(num) ==
    LET maxValue == IF config.patternType = "squares"
                    THEN MaxSquaresCount ELSE MaxSizeValue
        newNum == Max(1, Min(maxValue, num))
    IN IF config.patternType = "squares"
       THEN Change("handleNumSquaresChange",
                   [config EXCEPT !.numSquares = newNum,
                                  !.colors = ResizedColors(config.colors, newNum)])
       ELSE Change("handleNumSquaresChange",
                   [config EXCEPT !.numSquares = newNum])

\* The size input otherwise calls handleNumSquaresChange.
SizeInputSetsCount ==
    ~(Concentric(config) /\ config.squaresSizeMode = "thickness")

handleNumSquaresChange ==
    /\ SizeInputSetsCount
    /\ \E num \in SizeInputs : NumSquaresChange(num)

\* handleNumColorsChange(num), shown for stripes.
handleNumColorsChange ==
    /\ config.patternType = "stripes"
    /\ \E num \in SizeInputs :
          LET newNum == Max(1, Min(MaxSquaresCount, num))
          IN Change("handleNumColorsChange",
                    [config EXCEPT !.colors = ResizedColors(config.colors, newNum)])

\* handlePatternTypeChange(type)
handlePatternTypeChange ==
    \E type \in PatternTypes :
        IF type = "cubes"
        THEN Change("handlePatternTypeChange",
                    [config EXCEPT !.patternType = type,
                                   !.colors = CubeColors(config.colors),
                                   !.numSquares = DefaultCubeSize])
        ELSE Change("handlePatternTypeChange", [config EXCEPT !.patternType = type])

\* handlePaletteChange(paletteKey)
handlePaletteChange ==
    \E paletteKey \in PaletteKeys :
        LET palette == getPalette(paletteKey)
            targetCount == IF config.patternType = "squares"
                           THEN config.numSquares ELSE Len(config.colors)
            finalCount == Max(targetCount, Len(palette))
            newColors == [i \in 1..finalCount |-> palette[((i - 1) % Len(palette)) + 1]]
        IN IF config.patternType = "cubes"
           THEN Change("handlePaletteChange",
                       [config EXCEPT !.colors = SubSeq(palette, 1, CubeColorCount)])
           ELSE IF config.patternType = "squares"
           THEN Change("handlePaletteChange",
                       [config EXCEPT !.colors = newColors, !.numSquares = finalCount])
           ELSE Change("handlePaletteChange", [config EXCEPT !.colors = newColors])

\* The colour-sync effect of the last render: where the length of
\* config.colors differs from neededCount it queues the update
\* setConfig(prev => ({ ...prev, colors: newColors })), which awaits its
\* render.
RunColorSync ==
    /\ pc = "effects"
    /\ effectDeps' = EffectDeps(config, pattern)
    /\ pc' = IF Len(config.colors) # NeededCount(config, pattern)
             THEN "pending" ELSE "quiescent"
    /\ UNCHANGED <<args, stitchCounts, earlier, memVars, lastOp, editingColorIndex, config,
                   pattern, events>>

\* The render of the update the effect has queued: prev is the config of the
\* last render, the colours are those the effect has computed from it, and
\* the effect is due again if one of its dependencies differs.
RenderColorSync ==
    /\ pc = "pending"
    /\ config' = [config EXCEPT
                      !.colors = SyncedColors(config.colors, NeededCount(config, pattern))]
    /\ pattern' = PatternFields(config')
    /\ pc' = IF EffectDeps(config', pattern') # effectDeps THEN "effects" ELSE "quiescent"
    /\ UNCHANGED <<args, stitchCounts, earlier, memVars, lastOp, editingColorIndex, effectDeps,
                   events>>

NextApp ==
    \/ handleChangeFabric
    \/ handleChangeCanvasType
    \/ handleChangeOffset
    \/ handleChangeRatio
    \/ handleChangeTilt
    \/ handleChangeNumSides
    \/ handleChangeSizeMode
    \/ handleChangeLayerThickness
    \/ handleColorChange
    \/ handleNumSquaresChange
    \/ handleNumColorsChange
    \/ handlePatternTypeChange
    \/ handlePaletteChange
    \/ RunColorSync
    \/ RenderColorSync

\* React runs a due effect before it handles the next event, and renders a
\* queued update.
SpecApp ==
    InitApp /\ [][NextApp]_vars /\ WF_vars(RunColorSync) /\ WF_vars(RenderColorSync)

\* ------------------------------------------------------ the colour picker
\* The App with the canvas and the colour picker: the pattern type buttons,
\* the size input with sizes up to beyond its maxima, the palette select,
\* clicks on cells of the canvas, and the colour picker the click opens.
\* While the picker is open the user works in it until it is closed. args
\* holds the cell of the click that opened the picker.
WideSizeInputs == {1, MaxSquaresCount + 1}

\* The cells clicked: a corner and a cell next to the centre, <<gridX, gridY>>.
ClickCells == {<<0, 0>>, <<49, 50>>}

EditorClosed == editingColorIndex = NullIndex

\* pattern.grid[gridY][gridX].level for the pattern the useMemo computes
\* from cfg.
ClickedLevel(cfg, gridX, gridY) ==
    LET dx2 == Dx2(gridX, cfg.width, cfg.offsetX)
        dy2 == Dx2(gridY, cfg.height, cfg.offsetY)
        u2 == RotX2(dx2, dy2, cfg.tilt)
        v2 == RotY2(dx2, dy2, cfg.tilt)
        t == AppThickness(cfg)
    IN CASE cfg.patternType = "squares" ->
              LevelCell(
                  SquaresLevel(
                      SquaresDistance(gridX, gridY, cfg.width, cfg.height,
                          cfg.ratioX, cfg.ratioY, cfg.tilt, cfg.offsetX, cfg.offsetY),
                      SquaresMaxDistance(cfg.width, cfg.height, cfg.ratioX,
                          cfg.ratioY, cfg.tilt, cfg.offsetX, cfg.offsetY),
                      cfg.numSquares, t),
                  cfg.colors).level
         [] cfg.patternType = "circles" ->
              LevelCell(
                  CirclesLevel(CircleDist2(u2, v2, cfg.ratioX, cfg.ratioY),
                               CircleEps(u2, v2, cfg.ratioX, cfg.ratioY),
                               CirclesMax2(cfg.width, cfg.height, cfg.ratioX,
                                   cfg.ratioY, cfg.tilt, cfg.offsetX, cfg.offsetY),
                               cfg.numSquares, t, cfg.ratioX, cfg.ratioY),
                  cfg.colors).level
         [] cfg.patternType = "polygons" ->
              LET sides == PolygonSides(cfg.numSides)
              IN LevelCell(
                     PolygonsLevel(
                         PolygonDistance(u2, v2, cfg.ratioX, cfg.ratioY, sides, 1),
                         PolygonsMaxDistance(cfg.width, cfg.height, cfg.ratioX,
                             cfg.ratioY, cfg.tilt, cfg.offsetX, cfg.offsetY, sides),
                         cfg.numSquares, t, PolyDen(cfg.ratioX, cfg.ratioY),
                         SurdRadicand(sides)),
                     cfg.colors).level
         [] cfg.patternType = "stripes" ->
              StripeIndex(StripePos(u2, cfg.numSquares), Len(cfg.colors))
         [] cfg.patternType = "cubes" ->
              CubeFace(dx2, dy2, HexRadius(cfg.numSquares))

\* handleCanvasClick on the cell (gridX, gridY): onColorClick(cell.level),
\* which is handleColorClick: setEditingColorIndex(index).
handleCanvasClick ==
    /\ HandlesEvents
    /\ EditorClosed
    /\ \E cell \in ClickCells :
          /\ cell[1] < config.width
          /\ cell[2] < config.height
          /\ editingColorIndex' = ClickedLevel(config, cell[1], cell[2])
          /\ args' = [fn |-> "handleCanvasClick", gridX |-> cell[1], gridY |-> cell[2]]
    /\ lastOp' = "handleCanvasClick"
    /\ events' = events + 1
    /\ UNCHANGED <<pc, pattern, stitchCounts, earlier, memVars, config, effectDeps>>

\* newColors[editingColorIndex] = newColor: the entries between the end of
\* the array and a larger index are left undefined.
UpdatedColors(colors, index, newColor) ==
    [i \in 1..Max(Len(colors), index + 1) |->
        IF i = index + 1 THEN newColor
        ELSE IF i <= Len(colors) THEN colors[i]
        ELSE Undefined]

\* handleColorUpdate(newColor), the colour picker's onChange.
handleColorUpdate ==
    /\ HandlesEvents
    /\ ~EditorClosed
    /\ \E newColor \in {FallbackColor} :
          LET cfg == [config EXCEPT
                         !.colors = UpdatedColors(config.colors, editingColorIndex, newColor)]
          IN /\ config' = cfg
             /\ pattern' = PatternFields(cfg)
             /\ pc' = IF EffectDeps(cfg, pattern') # effectDeps THEN "effects" ELSE "quiescent"
    /\ lastOp' = "handleColorUpdate"
    /\ events' = events + 1
    /\ UNCHANGED <<args, stitchCounts, earlier, memVars, effectDeps, editingColorIndex>>

\* The colour picker's onClose: setEditingColorIndex(null).
onClose ==
    /\ HandlesEvents
    /\ ~EditorClosed
    /\ editingColorIndex' = NullIndex
    /\ args' = NoCall
    /\ lastOp' = "onClose"
    /\ events' = events + 1
    /\ UNCHANGED <<pc, pattern, stitchCounts, earlier, memVars, config, effectDeps>>

NextEditor ==
    \/ EditorClosed /\ handlePatternTypeChange
    \/ EditorClosed /\ SizeInputSetsCount /\ \E num \in WideSizeInputs : NumSquaresChange(num)
    \/ EditorClosed /\ handlePaletteChange
    \/ handleCanvasClick
    \/ handleColorUpdate
    \/ onClose
    \/ RunColorSync
    \/ RenderColorSync

SpecEditor ==
    InitApp /\ [][NextEditor]_vars /\ WF_vars(RunColorSync) /\ WF_vars(RenderColorSync)

\* ---------------------------------------------------------------- the claims
Returned == pc = "returned"

Layered ==
    args.fn \in {"generateConcentricSquares", "generateConcentricCircles",
                 "generateConcentricPolygons"}

CountMode == args.layerThickness = 0

\* A valid configuration: at least one colour, positive ratios, and a
\* positive size (layer count, stripe width, cube size) or thickness.
ValidConfig ==
    /\ Len(args.colors) >= 1
    /\ args.ratioX > 0
    /\ args.ratioY > 0
    /\ (args.layerThickness > 0 \/ args.size >= 1)

\* The cell at column x, row y (0-based) of the returned grid.
Cell(x, y) == pattern.grid[y + 1][x + 1]

Columns == 0..(args.width - 1)
Rows == 0..(args.height - 1)

\* The maxDistance the call computed is exactly 0.
MaxDistanceIsZero ==
    CASE args.fn = "generateConcentricSquares" ->
           SquaresMaxDistance(args.width, args.height, args.ratioX, args.ratioY,
                              args.tilt, args.offsetX, args.offsetY) = EpsZero
      [] args.fn = "generateConcentricCircles" ->
           CirclesMax2(args.width, args.height, args.ratioX, args.ratioY,
                       args.tilt, args.offsetX, args.offsetY) = 0
      [] args.fn = "generateConcentricPolygons" ->
           PolygonsMaxDistance(args.width, args.height, args.ratioX, args.ratioY,
                               args.tilt, args.offsetX, args.offsetY,
                               PolygonSides(args.numSides)) = SeZero

\* Corner i is one of the corners that set maxDistance.
FarthestCorner(i) ==
    LET c == Corners(args.width, args.height)[i]
        dx2 == Dx2(c.x, args.width, args.offsetX)
        dy2 == Dx2(c.y, args.height, args.offsetY)
        u2 == RotX2(dx2, dy2, args.tilt)
        v2 == RotY2(dx2, dy2, args.tilt)
    IN CASE args.fn = "generateConcentricSquares" ->
              EpsCmp(SquaresDistance(c.x, c.y, args.width, args.height,
                                     args.ratioX, args.ratioY, args.tilt,
                                     args.offsetX, args.offsetY),
                     SquaresMaxDistance(args.width, args.height, args.ratioX,
                                        args.ratioY, args.tilt, args.offsetX,
                                        args.offsetY)) = 0
         [] args.fn = "generateConcentricCircles" ->
              CircleDist2(u2, v2, args.ratioX, args.ratioY)
                  = CirclesMax2(args.width, args.height, args.ratioX,
                                args.ratioY, args.tilt, args.offsetX, args.offsetY)
         [] args.fn = "generateConcentricPolygons" ->
              PolygonDistance(u2, v2, args.ratioX, args.ratioY,
                              PolygonSides(args.numSides), 0)
                  = PolygonsMaxDistance(args.width, args.height, args.ratioX,
                                        args.ratioY, args.tilt, args.offsetX,
                                        args.offsetY, PolygonSides(args.numSides))

CornerCell(i) ==
    LET c == Corners(args.width, args.height)[i] IN Cell(c.x, c.y)

\* C1, as the spec states it: for every valid configuration of any of the five
\* generators, every cell's level is an integer with 0 <= level < colors.length.
\* generateIsometricCubes stores the face index (0..2) whatever colors.length is.
C1_LevelBelowColorCount ==
    (Returned /\ ValidConfig) =>
        \A x \in Columns, y \in Rows :
            Cell(x, y).level \in 0..(Len(args.colors) - 1)

\* C2, as the spec states it: in every grid of every generator (here: for
\* every valid configuration), cell.color is colors[cell.level], cubes with
\* fewer than 3 colours included.
C2_ColorIsColorsAtLevel ==
    (Returned /\ ValidConfig) =>
        \A x \in Columns, y \in Rows :
            Cell(x, y).color = ColorAt(args.colors, Cell(x, y).level)

\* C3: the returned grid has `height` rows of `width` cells, every cell is a
\* filled {color, level} record (none is left null), and the returned width
\* and height are the inputs.
C3_GridIsFilled ==
    Returned =>
        /\ Len(pattern.grid) = args.height
        /\ \A y \in Rows : Len(pattern.grid[y + 1]) = args.width
        /\ \A x \in Columns, y \in Rows :
              /\ DOMAIN Cell(x, y) = {"color", "level"}
              /\ Cell(x, y) # NullCell
        /\ pattern.width = args.width
        /\ pattern.height = args.height

C3_Witness ==
    /\ Returned
    /\ ValidConfig
    /\ args.fn = "generateIsometricCubes"
    /\ args.width = 3
    /\ args.height = 2
    /\ Len(pattern.grid) = 2
    /\ Len(pattern.grid[2]) = 3
    /\ Cell(2, 1).level \in 0..2

C6_EmptyColorsRejected ==
    (Returned /\ Len(args.colors) = 0) =>
        \A x \in Columns, y \in Rows :
            Cell(x, y).color # Undefined /\ Cell(x, y).level # NaN

\* C7, as the spec states it: with ratioX <= 0 or ratioY <= 0 the squares,
\* circles and polygons generators produce no grid.
C7_BadRatioRejected ==
    (Returned /\ Layered /\ (args.ratioX <= 0 \/ args.ratioY <= 0)) =>
        pattern.grid = <<>>

\* C8, as the spec states it: in count mode a layer count <= 0 gives the grid
\* of one layer, every cell at level 0 with colors[0].
C8_NonPositiveCountClamped ==
    (Returned /\ Layered /\ CountMode /\ args.size <= 0
        /\ Len(args.colors) >= 1 /\ args.ratioX > 0 /\ args.ratioY > 0) =>
        \A x \in Columns, y \in Rows :
            Cell(x, y) = [color |-> args.colors[1], level |-> 0]

\* C9: for polygons, numSides < 3 gives the grid of numSides = 3 and returns
\* numSides 3; numSides >= 3 is returned as passed.
C9_SidesClampedToThree ==
    (Returned /\ args.fn = "generateConcentricPolygons") =>
        IF args.numSides < 3
        THEN /\ pattern.numSides = 3
             /\ pattern.grid =
                    generateConcentricPolygons(args.width, args.height, 3,
                        args.size, args.colors, args.ratioX, args.ratioY,
                        args.layerThickness, args.tilt, args.offsetX,
                        args.offsetY).grid
             /\ Len(pattern.grid) = args.height
        ELSE pattern.numSides = args.numSides

C9_Witness ==
    /\ Returned
    /\ args.fn = "generateConcentricPolygons"
    /\ args.numSides = 2
    /\ pattern.numSides = 3
    /\ args.width = 3
    /\ args.height = 3
    /\ ValidConfig
    /\ Cell(0, 0).level # Cell(1, 1).level

\* C10: in count mode with a valid configuration, when maxDistance is 0 the
\* call returns a full grid whose levels are integers in 0..layerCount - 1,
\* and the cell of a 1x1 grid has level 0.
C10_ZeroMaxDistance ==
    (Returned /\ Layered /\ CountMode /\ ValidConfig /\ MaxDistanceIsZero) =>
        /\ Len(pattern.grid) = args.height
        /\ \A x \in Columns, y \in Rows :
              Cell(x, y).level \in 0..(args.size - 1)
        /\ (args.width = 1 /\ args.height = 1) => Cell(0, 0).level = 0

C10_Witness ==
    /\ Returned
    /\ args.fn = "generateConcentricCircles"
    /\ CountMode
    /\ ValidConfig
    /\ MaxDistanceIsZero
    /\ args.size = 3
    /\ Len(args.colors) = 3
    /\ Cell(0, 0) = [color |-> args.colors[1], level |-> 0]

\* The stripe position floor(rx / stripeWidth) of the cell at (x, y).
CellStripePos(x, y) ==
    StripePos(RotX2(Dx2(x, args.width, args.offsetX),
                    Dx2(y, args.height, args.offsetY), args.tilt),
              args.size)

ReturnedStripes ==
    /\ Returned
    /\ args.fn = "generateStripes"
    /\ Len(args.colors) >= 1
    /\ args.size # 0

\* The stripe positions the modulo is checked on, beyond those of the grid.
StripePositions == (-(2 * StripesMaxWidth))..(2 * StripesMaxWidth)

\* C11: for stripes (at least one colour, stripeWidth not 0) the level of a
\* cell is its stripe position floor(rx / stripeWidth) modulo colors.length
\* in the mathematical sense: it lies in 0..colors.length - 1 also for
\* negative positions, two cells whose positions differ by a multiple of
\* colors.length have the same cell, and positions p and p + colors.length
\* map to the same index for every integer p.
C11_StripeModulo ==
    ReturnedStripes =>
        LET len == Len(args.colors) IN
        /\ \A x \in Columns, y \in Rows :
              /\ Cell(x, y).level \in 0..(len - 1)
              /\ Cell(x, y).level = CellStripePos(x, y) % len
              /\ Cell(x, y).color = args.colors[Cell(x, y).level + 1]
        /\ \A x1 \in Columns, x2 \in Columns, y1 \in Rows, y2 \in Rows :
              (CellStripePos(x1, y1) - CellStripePos(x2, y2)) % len = 0
                  => Cell(x1, y1) = Cell(x2, y2)
        /\ \A p \in StripePositions :
              /\ StripeIndex(p, len) \in 0..(len - 1)
              /\ StripeIndex(p, len) = StripeIndex(p + len, len)

\* A cell at a negative stripe position whose index is not 0, and the cell
\* one palette cycle to its right with the same colour.
C11_Witness ==
    /\ ReturnedStripes
    /\ Len(args.colors) = 2
    /\ \E x1 \in Columns, x2 \in Columns :
          /\ CellStripePos(x1, 0) < 0
          /\ CellStripePos(x2, 0) = CellStripePos(x1, 0) + 2
          /\ Cell(x1, 0).level = 1
          /\ Cell(x2, 0) = Cell(x1, 0)

\* The rounded cube coordinates the call computed for the cell at (x, y).
CellHex(x, y) ==
    HexCoords(Dx2(x, args.width, args.offsetX), Dx2(y, args.height, args.offsetY),
              HexRadius(args.size))

\* The three Math.round results for the cell at (x, y), before the correction.
CellRoundings(x, y) ==
    LET dx2 == Dx2(x, args.width, args.offsetX)
        dy2 == Dx2(y, args.height, args.offsetY)
        hexRadius == HexRadius(args.size)
    IN <<HexRound(HexQ(dx2, dy2), hexRadius), HexRound(HexR(dx2, dy2), hexRadius),
         HexRound(HexZ(dx2, dy2), hexRadius)>>

\* C12: for every cell generateIsometricCubes classifies, the rounded cube
\* coordinates after the correction are integers with rx + ry + rz = 0, and
\* the cell's face is the one computed from that hexagon.
C12_HexCoordinatesSumToZero ==
    (Returned /\ args.fn = "generateIsometricCubes") =>
        \A x \in Columns, y \in Rows :
            LET hex == CellHex(x, y) IN
            /\ hex.rx \in Int /\ hex.ry \in Int /\ hex.rz \in Int
            /\ hex.rx + hex.ry + hex.rz = 0
            /\ Cell(x, y).level =
                   FaceIndex(FromCenterX(Dx2(x, args.width, args.offsetX), hex,
                                         HexRadius(args.size)),
                             FromCenterY(Dx2(y, args.height, args.offsetY), hex,
                                         HexRadius(args.size)))

\* A cell whose three roundings do not sum to 0, so that the correction acts.
C12_Witness ==
    /\ Returned
    /\ args.fn = "generateIsometricCubes"
    /\ \E x \in Columns, y \in Rows :
          LET r == CellRoundings(x, y) hex == CellHex(x, y) IN
          /\ r[1] + r[2] + r[3] # 0
          /\ hex.rx + hex.ry + hex.rz = 0
          /\ hex # [rx |-> r[1], ry |-> r[2], rz |-> r[3]]

\* generateConcentricSquares(3, 3, 2, [two colours], 1, 1, null, 0, 0, 0) has returned.
SquaresScenario ==
    /\ Returned
    /\ args.fn = "generateConcentricSquares"
    /\ args.width = 3
    /\ args.height = 3
    /\ args.size = 2
    /\ Len(args.colors) = 2
    /\ args.ratioX = 1
    /\ args.ratioY = 1
    /\ CountMode
    /\ args.tilt = 0
    /\ args.offsetX = 0
    /\ args.offsetY = 0

\* C14: generateConcentricSquares on a 3x3 grid with 2 layers, two colours,
\* ratios 1, count mode, tilt 0 and zero offsets puts level 0 with the first
\* colour at the centre cell (1, 1) and level 1 with the second colour at
\* the eight other cells.
C14_ThreeByThreeSquares ==
    SquaresScenario =>
        \A x \in Columns, y \in Rows :
            Cell(x, y) = IF x = 1 /\ y = 1
                         THEN [color |-> args.colors[1], level |-> 0]
                         ELSE [color |-> args.colors[2], level |-> 1]

C14_Witness ==
    /\ SquaresScenario
    /\ Cell(1, 1).level = 0
    /\ Cell(0, 0).color = args.colors[2]
    /\ Cell(1, 0).color = args.colors[2]
    /\ args.colors[1] # args.colors[2]

\* generateStripes(4, 1, 2, [two colours], 0, 0, 0) has returned.
StripesScenario ==
    /\ Returned
    /\ args.fn = "generateStripes"
    /\ args.width = 4
    /\ args.height = 1
    /\ args.size = 2
    /\ Len(args.colors) = 2
    /\ args.tilt = 0
    /\ args.offsetX = 0
    /\ args.offsetY = 0

\* C15: generateStripes on a 4x1 grid with stripeWidth 2, two colours, tilt 0
\* and zero offsets gives cells x = 0 and x = 1 one colour and cells x = 2
\* and x = 3 the other: the stripe boundary is at the centre 1.5.
C15_FourByOneStripes ==
    StripesScenario =>
        /\ Cell(0, 0) = Cell(1, 0)
        /\ Cell(2, 0) = Cell(3, 0)
        /\ Cell(0, 0).color # Cell(2, 0).color
        /\ {Cell(0, 0).color, Cell(2, 0).color} = {args.colors[1], args.colors[2]}
        /\ CellStripePos(1, 0) + 1 = CellStripePos(2, 0)

C15_Witness ==
    /\ StripesScenario
    /\ Cell(0, 0) = [color |-> args.colors[2], level |-> 1]
    /\ Cell(3, 0) = [color |-> args.colors[1], level |-> 0]

\* The layer count the call returned: numSquares for squares, numLayers for
\* circles and polygons.
ResolvedLayerCount ==
    IF args.fn = "generateConcentricSquares" THEN pattern.numSquares
    ELSE pattern.numLayers

\* k * thickness >= maxDistance + thickness / 2 for the maxDistance of the
\* call, the maximum of the metric over the four corners, as the code's
\* doubles compare them.
CoversMaxDistance(k) ==
    LET t == args.layerThickness IN
    CASE args.fn = "generateConcentricSquares" ->
           EpsCmp([n |-> (2 * k - 1) * t, e |-> 0, t |-> 0, d |-> 2],
                  SquaresMaxDistance(args.width, args.height, args.ratioX,
                                     args.ratioY, args.tilt, args.offsetX,
                                     args.offsetY)) >= 0
      [] args.fn = "generateConcentricCircles" ->
           LET side == (2 * k - 1) * t * args.ratioX * args.ratioY
           IN side * side >= CirclesMax2(args.width, args.height, args.ratioX,
                                         args.ratioY, args.tilt, args.offsetX,
                                         args.offsetY)
      [] args.fn = "generateConcentricPolygons" ->
           LET m == PolygonsMaxDistance(args.width, args.height, args.ratioX,
                                        args.ratioY, args.tilt, args.offsetX,
                                        args.offsetY, PolygonSides(args.numSides))
               den == PolyDen(args.ratioX, args.ratioY)
               s == SurdSign((2 * k - 1) * t * den - 2 * m.p, -2 * m.q,
                             SurdRadicand(PolygonSides(args.numSides)))
           IN s > 0 \/ (s = 0 /\ ~SumAbove(m, t, den))

\* C16: in thickness mode squares, circles and polygons return the layer
\* count max(1, ceil((maxDistance + thickness / 2) / thickness)): the least
\* k >= 1 with k * thickness >= maxDistance + thickness / 2. Thickness 10 and
\* maxDistance 25 give 3.
C16_ThicknessLayerCount ==
    /\ (Returned /\ Layered /\ ~CountMode) =>
          /\ ResolvedLayerCount \in Nat \ {0}
          /\ CoversMaxDistance(ResolvedLayerCount)
          /\ ResolvedLayerCount > 1 => ~CoversMaxDistance(ResolvedLayerCount - 1)
    /\ EpsActualLayers([n |-> 25, e |-> 0, t |-> 0, d |-> 1], 10) = 3
    /\ CirclesActualLayers(2500, 10, 1, 1) = 3
    /\ PolygonsActualLayers(SeInt(100), 10, 4, 3) = 3

\* Thickness-mode calls of each generator that resolve to three layers or more.
C16_Witness ==
    /\ Returned
    /\ Layered
    /\ ~CountMode
    /\ ValidConfig
    /\ ResolvedLayerCount >= 3
    /\ CoversMaxDistance(ResolvedLayerCount)
    /\ ~CoversMaxDistance(ResolvedLayerCount - 1)

Counted == pc = "counted"

\* The colour values that occur in the grid, and the cells of one colour.
GridColors == {Cell(x, y).color : x \in Columns, y \in Rows}
CellsOfColor(color) == {<<x, y>> \in Columns \X Rows : Cell(x, y).color = color}

\* The sum of the counts of the colours in `colorSet`.
RECURSIVE SumCounts(_, _)
SumCounts(counts, colorSet) ==
    IF colorSet = {} THEN 0
    ELSE LET c == CHOOSE c \in colorSet : TRUE
         IN counts[c] + SumCounts(counts, colorSet \ {c})

\* C17: countStitchesByColor maps each colour value that occurs in the grid
\* to the number of cells with that colour, has no entry for any other
\* colour, and its counts sum to width * height, for the grid of every
\* generator.
C17_CountsByColor ==
    Counted =>
        /\ DOMAIN stitchCounts = GridColors
        /\ \A color \in GridColors :
              stitchCounts[color] = Cardinality(CellsOfColor(color))
        /\ SumCounts(stitchCounts, DOMAIN stitchCounts) = args.width * args.height

\* A 3x3 grid that uses two of the three colours passed, one of them on a
\* single cell: the third colour has no entry.
C17_Witness ==
    /\ Counted
    /\ args.width = 3
    /\ args.height = 3
    /\ Cardinality(DOMAIN stitchCounts) = 2
    /\ Len(args.colors) = 3
    /\ args.colors[3] \notin DOMAIN stitchCounts
    /\ stitchCounts[args.colors[1]] = 1
    /\ stitchCounts[args.colors[2]] = 8

\* The distance the cell loop computes for the cell at (x, y) is greater
\* than the maxDistance the corner loop computed. For circles the two
\* 1e-10 of a cell are first-order in the distance (their sign is CircleEps)
\* except at the centre itself, where they are the whole distance.
ExceedsMaxDistance(x, y) ==
    LET dx2 == Dx2(x, args.width, args.offsetX)
        dy2 == Dx2(y, args.height, args.offsetY)
        u2 == RotX2(dx2, dy2, args.tilt)
        v2 == RotY2(dx2, dy2, args.tilt)
    IN CASE args.fn = "generateConcentricSquares" ->
              EpsCmp(SquaresDistance(x, y, args.width, args.height, args.ratioX,
                                     args.ratioY, args.tilt, args.offsetX,
                                     args.offsetY),
                     SquaresMaxDistance(args.width, args.height, args.ratioX,
                                        args.ratioY, args.tilt, args.offsetX,
                                        args.offsetY)) > 0
         [] args.fn = "generateConcentricCircles" ->
              LET dist2 == CircleDist2(u2, v2, args.ratioX, args.ratioY)
                  max2 == CirclesMax2(args.width, args.height, args.ratioX,
                                      args.ratioY, args.tilt, args.offsetX,
                                      args.offsetY)
              IN \/ dist2 > max2
                 \/ /\ dist2 = max2
                    /\ (dist2 = 0 \/ CircleEps(u2, v2, args.ratioX, args.ratioY) > 0)
         [] args.fn = "generateConcentricPolygons" ->
              LET sides == PolygonSides(args.numSides)
              IN SeSign(SeDiff(PolygonDistance(u2, v2, args.ratioX, args.ratioY,
                                               sides, 1),
                               PolygonsMaxDistance(args.width, args.height,
                                   args.ratioX, args.ratioY, args.tilt,
                                   args.offsetX, args.offsetY, sides)),
                        SurdRadicand(sides)) > 0

\* C18, as the spec states it: for squares, circles and polygons (valid
\* configurations) the maxDistance computed from the four corners is greater
\* than or equal to the distance computed for every cell. The corner loops
\* of circles and polygons leave out the 1e-10 the cell loops add.
C18_CornersBoundEveryCell ==
    (Returned /\ Layered /\ ValidConfig) =>
        \A x \in Columns, y \in Rows : ~ExceedsMaxDistance(x, y)

\* C18 restricted to squares, whose corner loop adds the same 1e-10 as its
\* cell loop.
SquaresCornersBoundEveryCell ==
    (Returned /\ args.fn = "generateConcentricSquares" /\ ValidConfig) =>
        \A x \in Columns, y \in Rows : ~ExceedsMaxDistance(x, y)

\* The user's last operation switched the pattern type to 'cubes', and the
\* effects it led to have run.
SwitchedToCubes ==
    /\ Quiescent
    /\ lastOp = "handlePatternTypeChange"
    /\ config.patternType = "cubes"

\* C19, as stated: after handlePatternTypeChange('cubes') and the effects
\* that follow it, config.colors has exactly 3 colours. The colour-sync
\* effect runs for every pattern type and resizes the colours to
\* config.numSquares, which the handler has set to 10.
C19_CubesKeepThreeColors ==
    SwitchedToCubes => Len(config.colors) = CubeColorCount

\* What the code does: after a switch to cubes from another pattern type
\* the colours are the three the handler chose, cycled up to the cube size.
CubesColorsCycled ==
    (SwitchedToCubes /\ Len(config.colors) # CubeColorCount) =>
        /\ Len(config.colors) = DefaultCubeSize
        /\ \A i \in 1..DefaultCubeSize :
              config.colors[i] = config.colors[((i - 1) % CubeColorCount) + 1]

\* The number of layers of the concentric pattern on display.
NeededLayers ==
    IF config.squaresSizeMode = "count" THEN config.numSquares
    ELSE IF config.patternType = "squares" THEN pattern.numSquares
    ELSE pattern.numLayers

\* C20, as stated: whenever the colour-sync effect has run to quiescence for
\* squares, circles or polygons, config.colors.length is config.numSquares
\* in count mode and the pattern's resolved layer count in thickness mode,
\* after any sequence of ControlPanel operations. The effect does not run
\* again when a handler changes the colours alone.
C20_ColorsMatchLayers ==
    (Quiescent /\ Concentric(config)) => Len(config.colors) = NeededLayers

\* The App never has an empty colour list or a size below 1.
AppConfigValid ==
    /\ Len(config.colors) >= 1
    /\ config.numSquares >= 1

\* The grid the same call returns at tilt 0.
UntiltedGrid ==
    generateConcentricSquares(args.width, args.height, args.size, args.colors,
        args.ratioX, args.ratioY, args.layerThickness, 0, args.offsetX,
        args.offsetY).grid

\* C13, as stated, for squares: tilt 360 produces the same grid as tilt 0
\* when all other inputs are equal. In the code sinTilt is -2.45e-16 at tilt
\* 360, which moves a maxDistance or a distance off a layer boundary.
C13_TiltIdentity ==
    (Returned /\ args.fn = "generateConcentricSquares" /\ args.tilt = 360) =>
        pattern.grid = UntiltedGrid

\* C21, as stated: for stripes and cubes handleNumSquaresChange leaves
\* config.colors unchanged, in the handler's own step and in the colour-sync
\* effect that runs after it. In the code the effect takes config.numSquares
\* (the stripe width or cube size) as the number of colours needed.
C21_SizeChangeKeepsColors ==
    [][(/\ lastOp' = "handleNumSquaresChange"
        /\ config'.patternType \in {"stripes", "cubes"})
           => config'.colors = config.colors]_vars

\* The handler's own step does leave config.colors alone.
SizeHandlerKeepsColors ==
    [][(/\ events' # events
        /\ lastOp' = "handleNumSquaresChange"
        /\ config.patternType \in {"stripes", "cubes"})
           => config'.colors = config.colors]_vars

\* The least p >= 1 with colors[i] === colors[i mod p] for every index i, and
\* the length for arrays of length 0 or 1.
LeastPeriod(colors) ==
    LET Repeats(p) ==
            \A i \in 0..(Len(colors) - 1) : colors[i + 1] = colors[(i % p) + 1]
    IN IF Len(colors) <= 1 THEN Len(colors)
       ELSE CHOOSE p \in 1..Len(colors) :
                /\ Repeats(p)
                /\ \A other \in 1..(p - 1) : ~Repeats(other)

\* C22, as stated: findPeriod(colors) returns the least p >= 1 such that
\* colors[i] === colors[i mod p] for every index i (the length for arrays of
\* length 0 or 1). The code tries only p <= colors.length / 2 and returns
\* the length otherwise.
C22_FindPeriodIsLeast ==
    (pc = "returned" /\ args.fn = "findPeriod") =>
        pattern.period = LeastPeriod(args.colors)

\* What the code does return: the least period that is at most half the
\* length, else the length.
FindPeriodUpToHalf ==
    (pc = "returned" /\ args.fn = "findPeriod") =>
        LET least == LeastPeriod(args.colors)
        IN pattern.period =
               IF 2 * least <= Len(args.colors) THEN least ELSE Len(args.colors)

CellLayer(x, y) ==
    LET dx2 == Dx2(x, args.width, args.offsetX)
        dy2 == Dx2(y, args.height, args.offsetY)
        u2 == RotX2(dx2, dy2, args.tilt)
        v2 == RotY2(dx2, dy2, args.tilt)
    IN CASE args.fn = "generateConcentricSquares" ->
              SquaresLevel(
                  SquaresDistance(x, y, args.width, args.height, args.ratioX,
                                  args.ratioY, args.tilt, args.offsetX, args.offsetY),
                  SquaresMaxDistance(args.width, args.height, args.ratioX,
                                     args.ratioY, args.tilt, args.offsetX,
                                     args.offsetY),
                  args.size, args.layerThickness)
         [] args.fn = "generateConcentricCircles" ->
              CirclesLevel(CircleDist2(u2, v2, args.ratioX, args.ratioY),
                           CircleEps(u2, v2, args.ratioX, args.ratioY),
                           CirclesMax2(args.width, args.height, args.ratioX,
                                       args.ratioY, args.tilt, args.offsetX,
                                       args.offsetY),
                           args.size, args.layerThickness, args.ratioX, args.ratioY)
         [] args.fn = "generateConcentricPolygons" ->
              LET sides == PolygonSides(args.numSides)
              IN PolygonsLevel(
                     PolygonDistance(u2, v2, args.ratioX, args.ratioY, sides, 1),
                     PolygonsMaxDistance(args.width, args.height, args.ratioX,
                                         args.ratioY, args.tilt, args.offsetX,
                                         args.offsetY, sides),
                     args.size, args.layerThickness,
                     PolyDen(args.ratioX, args.ratioY), SurdRadicand(sides))

\* C24, as stated: in thickness mode, for squares, circles and polygons
\* (valid configurations), every cell's un-cycled layer index is below the
\* numSquares / numLayers the call returns. In circles and polygons a cell
\* beyond the corner-derived maxDistance can get the returned count itself.
C24_LayerIndexBelowCount ==
    (Returned /\ Layered /\ ValidConfig /\ ~CountMode) =>
        \A x \in Columns, y \in Rows : CellLayer(x, y) < ResolvedLayerCount

\* C24 restricted to squares, where it holds.
SquaresLayerIndexBelowCount ==
    (Returned /\ args.fn = "generateConcentricSquares" /\ ValidConfig /\ ~CountMode) =>
        \A x \in Columns, y \in Rows : CellLayer(x, y) < ResolvedLayerCount

\* With as many colours as the returned count, such a cell wraps around to
\* colour 0.
NoWrapWithResolvedCount ==
    (Returned /\ Layered /\ ValidConfig /\ ~CountMode
        /\ Len(args.colors) = ResolvedLayerCount) =>
        \A x \in Columns, y \in Rows : Cell(x, y).level = CellLayer(x, y)

\* C27, as stated: with offsetX = offsetY = 0 and tilt = 0 the circles grid
\* of a valid configuration is symmetric under point reflection through the
\* grid centre: cells (x, y) and (width - 1 - x, height - 1 - y) have the
\* same level. The code adds the 1e-10 to the signed rotated coordinates, so
\* the distances of mirrored cells differ by about 2e-10.
C27_CirclesPointSymmetry ==
    (/\ Returned
     /\ args.fn = "generateConcentricCircles"
     /\ ValidConfig
     /\ args.offsetX = 0
     /\ args.offsetY = 0
     /\ args.tilt = 0) =>
        \A x \in Columns, y \in Rows :
            Cell(x, y).level = Cell(args.width - 1 - x, args.height - 1 - y).level

\* The squares grid, whose metric takes Math.abs before it adds the 1e-10,
\* is symmetric under the same reflection.
SquaresPointSymmetry ==
    (/\ Returned
     /\ args.fn = "generateConcentricSquares"
     /\ ValidConfig
     /\ args.offsetX = 0
     /\ args.offsetY = 0
     /\ args.tilt = 0) =>
        \A x \in Columns, y \in Rows :
            Cell(x, y).level = Cell(args.width - 1 - x, args.height - 1 - y).level

\* The grid the same call returns with offsetX = offsetY = 0.
CenteredGrid ==
    CASE args.fn = "generateConcentricSquares" ->
           generateConcentricSquares(args.width, args.height, args.size,
               args.colors, args.ratioX, args.ratioY, args.layerThickness,
               args.tilt, 0, 0).grid
      [] args.fn = "generateConcentricCircles" ->
           generateConcentricCircles(args.width, args.height, args.size,
               args.colors, args.ratioX, args.ratioY, args.layerThickness,
               args.tilt, 0, 0).grid
      [] args.fn = "generateConcentricPolygons" ->
           generateConcentricPolygons(args.width, args.height, args.numSides,
               args.size, args.colors, args.ratioX, args.ratioY,
               args.layerThickness, args.tilt, 0, 0).grid
      [] args.fn = "generateStripes" ->
           generateStripes(args.width, args.height, args.size, args.colors,
               args.tilt, 0, 0).grid

\* Stripes, and squares, circles and polygons in thickness mode, with at
\* least one colour.
LevelFromDisplacement ==
    /\ Len(args.colors) >= 1
    /\ \/ args.fn = "generateStripes"
       \/ Layered /\ ~CountMode

\* C29: for stripes and for thickness-mode squares, circles and polygons,
\* cell (x, y) of the grid generated with integer offsets (ox, oy) has the
\* same level as cell (x - ox, y - oy) of the grid generated with offsets
\* (0, 0), whenever both cells lie inside the grid.
C29_LevelFollowsOffset ==
    (Returned /\ LevelFromDisplacement) =>
        \A x \in Columns, y \in Rows :
            (x - args.offsetX \in Columns /\ y - args.offsetY \in Rows) =>
                Cell(x, y).level =
                    CenteredGrid[y - args.offsetY + 1][x - args.offsetX + 1].level

\* A 3x1 squares grid of thickness 1 shifted right by one: levels 2, 1, 0,
\* where the centred grid has 1, 0, 1.
C29_Witness ==
    /\ Returned
    /\ args.fn = "generateConcentricSquares"
    /\ args.layerThickness = 1
    /\ args.width = 3
    /\ args.height = 1
    /\ args.offsetX = 1
    /\ args.offsetY = 0
    /\ Len(args.colors) = 3
    /\ Cell(0, 0).level = 2
    /\ Cell(1, 0).level = 1
    /\ Cell(2, 0).level = 0
    /\ CenteredGrid[1][1].level = 1

\* C30: a generate call leaves the colors array it was passed as it was
\* (same length, same entries in the same order; the pattern it returns holds
\* that array), and the grid the caller keeps from an earlier call, read
\* through its address after the call, is the grid that call returned. No
\* array that existed before the call is changed by it.
C30_InputsNotMutated ==
    [][pc = "idle" =>
          /\ heap'[refs.colors] = heap[refs.colors]
          /\ heap'[refs.colors].items = args.colors
          /\ pattern'.colors = heap'[refs'.colors].items
          /\ GridAt(heap', refs'.grid) = pattern'.grid
          /\ refs.kept # 0 => GridAt(heap', refs'.kept) = earlier.grid
          /\ \A a \in DOMAIN heap : heap'[a] = heap[a]]_vars

\* A second call has returned a grid of the width and height of the grid the
\* caller kept from the first call, with other cells, in arrays of its own.
C30_Witness ==
    /\ Returned
    /\ refs.kept # 0
    /\ refs.grid # refs.kept
    /\ GridAt(heap, refs.kept) = earlier.grid
    /\ GridAt(heap, refs.grid) = pattern.grid
    /\ earlier.grid # pattern.grid
    /\ Len(earlier.grid) = Len(pattern.grid)
    /\ Len(earlier.grid[1]) = Len(pattern.grid[1])
    /\ PassedColors = args.colors
    /\ Len(args.colors) = 2

\* C25, as stated: whenever editingColorIndex is non-null it is a valid index
\* into config.colors. A cubes pattern stores the face index 0, 1 or 2 as
\* the level of a cell, whatever the number of colours.
C25_EditingIndexValid ==
    ~EditorClosed =>
        (editingColorIndex >= 0 /\ editingColorIndex < Len(config.colors))

\* handleColorUpdate never lengthens config.colors and leaves no undefined
\* entry: what C25 is to ensure.
ColorUpdateKeepsLength ==
    [][lastOp' = "handleColorUpdate" =>
          /\ Len(config'.colors) = Len(config.colors)
          /\ \A i \in 1..Len(config'.colors) : config'.colors[i] # Undefined]_vars

\* For the other four pattern types the level of a cell is an index into
\* the colours the pattern was generated with: a click sets an index that is
\* valid for the render it clicks on (a render of the effect's update that
\* follows the click may still cut the colours below it).
EditingIndexValidButCubes ==
    [][(lastOp' = "handleCanvasClick" /\ events' # events /\ config.patternType # "cubes")
          => (editingColorIndex' >= 0 /\ editingColorIndex' < Len(config.colors))]_vars

\* C28, as stated: whenever patternType is 'squares' config.numSquares lies
\* in 1..20, and for every other pattern type in 1..50.
\* handlePatternTypeChange carries the numSquares of another pattern type
\* over to squares unchanged.
C28_SizeWithinRange ==
    /\ config.numSquares >= 1
    /\ config.numSquares <=
           (IF config.patternType = "squares" THEN MaxSquaresCount ELSE MaxSizeValue)

\* The value stays in 1..50 for every pattern type.
SizeWithinWiderRange ==
    config.numSquares >= 1 /\ config.numSquares <= MaxSizeValue

\* C26: after a user action the cycle of config change, pattern
\* recomputation, colour-sync effect and setConfig ends after one run of the
\* effect: every step taken while the effect is due is the effect's run, it
\* calls setConfig at most once, and the render of that update finds no
\* dependency changed, so no effect is due again. With the weak fairness of
\* RunColorSync and RenderColorSync the effect runs, its update is rendered,
\* and the state after that is quiescent unless the user raises another
\* event.
C26_EffectRunsOnce ==
    [][/\ pc = "effects" =>
             /\ pc' \in {"pending", "quiescent"}
             /\ pc' = "quiescent" <=> Len(config.colors) = NeededCount(config, pattern)
             /\ effectDeps' = EffectDeps(config, pattern)
             /\ <<config, pattern, lastOp, events>>' = <<config, pattern, lastOp, events>>
       /\ (pc = "pending" /\ events' = events) =>
             /\ pc' = "quiescent"
             /\ lastOp' = lastOp
             /\ effectDeps' = EffectDeps(config', pattern')
             /\ Len(config'.colors) = NeededCount(config', pattern')]_vars

\* In thickness mode the effect has set the colours of a circles pattern to
\* the layer count the render computed, which is not config.numSquares, and
\* nothing is due.
C26_Witness ==
    /\ Quiescent
    /\ config.patternType = "circles"
    /\ config.squaresSizeMode = "thickness"
    /\ effectDeps = EffectDeps(config, pattern)
    /\ pattern.numLayers # config.numSquares
    /\ Len(config.colors) = pattern.numLayers

====
